---- MODULE Spec2Model ----
(***************************************************************************)
(* Wallet-based passwordless authentication of EduVerify:                  *)
(*   - the wallet-auth edge function (supabase/functions/wallet-auth),     *)
(*   - the profiles / user_roles tables and the identity provider it uses, *)
(*   - the onboarding forms that insert profiles from the browser,         *)
(*   - the login flow of the page (lib/walletAuth) and the AuthProvider    *)
(*     (contexts/AuthContext) holding user, session, profile and roles.    *)
(* Every await of the source is an interleaving point: one action per      *)
(* awaited call.                                                           *)
(***************************************************************************)
EXTENDS Integers, Sequences, FiniteSets, TLC

(* ------------------------------ bounds -------------------------------- *)
NumWallets == 2
MaxReq == 2
MaxSubmits == 2
MaxFailures == 1
MaxOps == 3

(* ------------------------- program constants -------------------------- *)
SIGN_MESSAGE == "EduVerify login: Sign this message to verify wallet ownership"
FRIENDLY_VERIFY_ERROR == "Wallet verification failed. Please reconnect your wallet and try again."
AddrHexLen == 40
EmailDomain == "wallet.eduverify.local"

Wallets == 1..NumWallets
Requests == 1..MaxReq
Submits == 1..MaxSubmits

(* ----------------------------- addresses ------------------------------ *)
(* An address string is a sequence of characters.  Wallet w owns the       *)
(* address 0x + 40 copies of its hex letter; the checksummed form that     *)
(* wallets and ethers report has upper-case letters in it.                 *)
LowerHexChars == {"0", "1", "2", "3", "4", "5", "6", "7", "8", "9", "a", "b", "c", "d", "e", "f"}
UpperHexChars == {"A", "B", "C", "D", "E", "F"}

toLowerChar(c) ==
  CASE c = "A" -> "a" [] c = "B" -> "b" [] c = "C" -> "c"
    [] c = "D" -> "d" [] c = "E" -> "e" [] c = "F" -> "f"
    [] c = "X" -> "x" [] OTHER -> c

toLowerCaseKeepsCase(s) == s

toLowerCase(s) == [i \in 1..Len(s) |-> toLowerChar(s[i])]

HexLetter(w) == CASE w = 0 -> "f" [] w = 1 -> "a" [] w = 2 -> "b" [] w = 3 -> "c" [] OTHER -> "d"
UpperOf(c) == CASE c = "a" -> "A" [] c = "b" -> "B" [] c = "c" -> "C"
                [] c = "d" -> "D" [] c = "e" -> "E" [] c = "f" -> "F" [] OTHER -> c

LowerAddr(w) == <<"0", "x">> \o [i \in 1..AddrHexLen |-> HexLetter(w)]
ChecksumAddr(w) ==
  <<"0", "x">> \o [i \in 1..AddrHexLen |-> IF i % 2 = 1 THEN UpperOf(HexLetter(w)) ELSE HexLetter(w)]
ShortAddr == <<"0", "x", "a", "b">>
NonHexAddr == <<"0", "x">> \o [i \in 1..AddrHexLen |-> "g"]
UpperPrefixAddr == <<"0", "X">> \o [i \in 1..AddrHexLen |-> "a"]
EmptyStr == <<>>

isValidAddressAny(address) == TRUE

isValidAddress(address) ==
  /\ Len(address) = AddrHexLen + 2
  /\ address[1] = "0"
  /\ address[2] = "x"
  /\ \A i \in 3..Len(address) : address[i] \in LowerHexChars \cup UpperHexChars

(* ----------------------------- signatures ----------------------------- *)
(* A signature is what personal_sign of wallet `signer` over `msg`         *)
(* produced, a string that is not a signature, or the empty string.        *)
Sig(w, m) == [form |-> "sig", signer |-> w, msg |-> m]
MalformedSig == [form |-> "malformed", signer |-> 0, msg |-> ""]
EmptySig == [form |-> "empty", signer |-> 0, msg |-> ""]

(* ethers.verifyMessage: throws on a malformed signature; otherwise it     *)
(* recovers the checksummed signer address when the message is the one     *)
(* signed, and some unrelated address when it is not.                      *)
verifyMessage(message, signature) ==
  IF signature.form # "sig" THEN [ok |-> FALSE, address |-> EmptyStr]
  ELSE IF signature.msg = message THEN [ok |-> TRUE, address |-> ChecksumAddr(signature.signer)]
  ELSE [ok |-> TRUE, address |-> ChecksumAddr(0)]

Email(normalizedAddress) == [local |-> normalizedAddress, domain |-> EmailDomain]


(* ------------------------------- state -------------------------------- *)
VARIABLES
  users,       \* identity provider: auth.users rows [id, email, wallet]
  links,       \* identity provider: one-time magic-link tokens [token, email, used]
  profiles,    \* table public.profiles
  user_roles,  \* table public.user_roles
  reqs,        \* the wallet-auth requests, each with its locals and its response
  session,     \* the browser's session: the signed-in user's id, 0 when signed out
  subs,        \* the onboarding forms' handleSubmit calls, each with its locals
  failures,    \* storage / provider calls that have failed so far
  auth,        \* AuthProvider: its React state and its calls in flight
  login        \* the authenticateWithWallet call of the page

vars == <<users, links, profiles, user_roles, reqs, session, subs, failures, auth, login>>

NoProfile == [id |-> 0, user_id |-> 0]
NoEmail == Email(EmptyStr)
NoUser == [id |-> 0, email |-> NoEmail, wallet_address |-> EmptyStr]

IdleReq ==
  [pc |-> "idle", method |-> "", action |-> "",
   wallet_address |-> EmptyStr, signature |-> EmptySig, message |-> "",
   normalizedAddress |-> EmptyStr, existingProfile |-> NoProfile,
   userId |-> 0, userEmail |-> NoEmail,
   status |-> 0, error |-> "", user |-> NoUser, token_hash |-> 0,
   calls |-> {}, effects |-> {}, failed |-> {}, after |-> {}]

IdleSub ==
  [pc |-> "idle", form |-> "", user |-> 0, walletAddress |-> EmptyStr,
   result |-> "", effects |-> {}, rowsSeen |-> 0, existed |-> FALSE]

(* profile === null of the AuthProvider.                                    *)
NullProfile ==
  [id |-> 0, user_id |-> 0, wallet_address |-> EmptyStr, role |-> "",
   display_name |-> "", onboarded |-> FALSE]

(* The AuthProvider before it is rendered: the useState initial values.    *)
(* init is the position of initializeAuth, initialEvent the INITIAL_SESSION *)
(* notification still to come, refreshing the user id a refreshProfile in  *)
(* flight was called with, completing the onboardingComplete in flight     *)
(* with the user and profile of the render it was called from; loadedFor   *)
(* is the user id whose completed fetch set profile and roles, lastOp the  *)
(* context function that returned last ("... threw" when it threw);        *)
(* completing.repeat tells that the call was made right after another      *)
(* onboardingComplete had returned.  profileData and rolesData are the two *)
(* promises of the Promise.all of a refreshProfile in flight.              *)
PendingProfile == [settled |-> FALSE, value |-> NullProfile]
PendingRoles == [settled |-> FALSE, value |-> {}]

UnmountedAuth ==
  [mounted |-> FALSE, init |-> "idle", initialEvent |-> FALSE,
   user |-> 0, session |-> 0, profile |-> NullProfile, roles |-> {},
   isLoading |-> TRUE, isAuthenticating |-> FALSE, error |-> "",
   refreshing |-> 0, profileData |-> PendingProfile, rolesData |-> PendingRoles,
   signingOut |-> FALSE,
   completing |-> [active |-> FALSE, user |-> 0, profile |-> NullProfile,
                   repeat |-> FALSE],
   loadedFor |-> 0, lastOp |-> ""]

NoSigned == [wallet_address |-> EmptyStr, message |-> "", signature |-> EmptySig]

(* ethereum, rejected and accounts record what the extension did: present  *)
(* or not, eth_requestAccounts rejected or answered with accounts; steps   *)
(* lists the calls the flow has made.  other is the position of a second   *)
(* authenticateWallet call made while this one is in flight.               *)
IdleLogin ==
  [pc |-> "idle", connectedWalletAddress |-> EmptyStr, ethereum |-> FALSE,
   rejected |-> FALSE, accounts |-> <<>>, activeAddress |-> EmptyStr,
   signed |-> NoSigned, req |-> 0, token_hash |-> 0, steps |-> <<>>, error |-> "",
   other |-> "idle"]

(* A pre-provisioned, unlinked profile: wallet_address set, user_id NULL.   *)
UnlinkedProfile(w) ==
  [id |-> 1, user_id |-> 0, wallet_address |-> LowerAddr(w), role |-> "issuer",
   display_name |-> "pre", onboarded |-> FALSE]

Init ==
  /\ users = {}
  /\ links = {}
  /\ profiles \in {{}, {UnlinkedProfile(1)}}
  /\ user_roles = {}
  /\ reqs = [r \in Requests |-> IdleReq]
  /\ session = 0
  /\ subs = [s \in Submits |-> IdleSub]
  /\ failures = 0
  /\ auth = UnmountedAuth
  /\ login = IdleLogin

(* A storage or provider call succeeds, or fails while failures remain.    *)
Outcomes == IF failures < MaxFailures THEN {TRUE, FALSE} ELSE {TRUE}
Count(ok) == IF ok THEN failures ELSE failures + 1


(* -------------------- wallet-auth: the synchronous checks -------------- *)
(* JavaScript truthiness of the destructured body fields.                  *)
Truthy(str) == str # EmptyStr
MessageTruthy(message) == message # ""
SignatureTruthy(signature) == signature.form # "empty"

FieldsOkUnlessReplayed(in) ==
  /\ Truthy(in.wallet_address)
  /\ isValidAddress(in.wallet_address)
  /\ SignatureTruthy(in.signature)
  /\ MessageTruthy(in.message)
  /\ \A q \in Requests : ~(reqs[q].status = 200 /\ reqs[q].signature = in.signature)

FieldsOk(in) ==
  /\ Truthy(in.wallet_address)
  /\ isValidAddress(in.wallet_address)
  /\ SignatureTruthy(in.signature)
  /\ MessageTruthy(in.message)

MessageOkAny(message) == TRUE
MessageOk(message) == message = SIGN_MESSAGE

AddressMatchesAny(recoveredAddress, normalizedAddress) == TRUE
AddressMatches(recoveredAddress, normalizedAddress) == recoveredAddress = normalizedAddress

UnrecoverableErrorRaw == "invalid signature"

(* The body sent from the catch around ethers.verifyMessage.               *)
UnrecoverableError == FRIENDLY_VERIFY_ERROR

MethodAllowedAny(method) == TRUE

(* req.method !== 'POST' is answered 405.                                  *)
MethodAllowed(method) == method = "POST"

(* The response of the part of the handler that runs before its first      *)
(* storage call; status 0 stands for "goes on to identity resolution".     *)
(* calls names the library calls made on the way.                          *)
SyncResponse(in) ==
  IF in.method = "OPTIONS" THEN [status |-> 200, error |-> "", calls |-> {}]
  ELSE IF ~MethodAllowed(in.method) THEN [status |-> 405, error |-> "Method not allowed", calls |-> {}]
  ELSE IF in.action \in {"nonce", "wallet-auth"} THEN
    IF ~Truthy(in.wallet_address) \/ ~isValidAddress(in.wallet_address)
    THEN [status |-> 400, error |-> "Invalid wallet address", calls |-> {}]
    ELSE [status |-> 200, error |-> "", calls |-> {}]
  ELSE IF in.action = "verify" THEN
    IF ~FieldsOk(in) THEN [status |-> 400, error |-> FRIENDLY_VERIFY_ERROR, calls |-> {}]
    ELSE IF ~MessageOk(in.message) THEN [status |-> 401, error |-> FRIENDLY_VERIFY_ERROR, calls |-> {}]
    ELSE LET rec == verifyMessage(in.message, in.signature) IN
      IF ~rec.ok
      THEN [status |-> 401, error |-> UnrecoverableError, calls |-> {"verifyMessage"}]
      ELSE IF ~AddressMatches(toLowerCase(rec.address), toLowerCase(in.wallet_address))
      THEN [status |-> 401, error |-> FRIENDLY_VERIFY_ERROR, calls |-> {"verifyMessage"}]
      ELSE [status |-> 0, error |-> "", calls |-> {"verifyMessage"}]
  ELSE [status |-> 400, error |-> "Unknown action", calls |-> {}]

DoneReqs == {q \in Requests : reqs[q].pc = "done"}

(* The requests and form submissions started so far.                       *)
Started ==
  Cardinality({q \in Requests : reqs[q].pc # "idle"})
    + Cardinality({q \in Submits : subs[q].pc # "idle"})

(* Request r arrives with input `in`; the handler runs up to its first     *)
(* storage call.  Slots are taken in order.                                *)
ReceiveReq(r, in) ==
  /\ reqs[r].pc = "idle"
  /\ \A q \in Requests : q < r => reqs[q].pc # "idle"
  /\ Started < MaxOps
  /\ LET res == SyncResponse(in)
         base == [IdleReq EXCEPT !.method = in.method, !.action = in.action,
                    !.wallet_address = in.wallet_address, !.signature = in.signature,
                    !.message = in.message, !.calls = res.calls, !.after = DoneReqs]
     IN reqs' = [reqs EXCEPT ![r] =
          IF res.status # 0
          THEN [base EXCEPT !.pc = "done", !.status = res.status, !.error = res.error]
          ELSE [base EXCEPT !.pc = "lookup",
                            !.normalizedAddress = toLowerCase(in.wallet_address),
                            !.userEmail = Email(toLowerCase(in.wallet_address))]]

Receive(r, in) ==
  /\ ReceiveReq(r, in)
  /\ UNCHANGED <<auth, login, users, links, profiles, user_roles, session, subs, failures>>

(* A 500 response.                                                         *)
Fail500(r, call, msg, injected) ==
  [reqs EXCEPT ![r].pc = "done", ![r].status = 500, ![r].error = msg,
               ![r].calls = @ \cup {call},
               ![r].failed = IF injected THEN @ \cup {call} ELSE @]


(* ------------------------- storage and provider ------------------------ *)
(* profiles.wallet_address is UNIQUE.                                      *)
WalletUnique(wallet_address) == \A p \in profiles : p.wallet_address # wallet_address

RoleNotUnique(user_id, role) == TRUE

(* user_roles has the (user_id, role) uniqueness the upserts name.         *)
RoleUnique(user_id, role) == \A x \in user_roles : ~(x.user_id = user_id /\ x.role = role)

EmailFreeAlways(email) == TRUE

(* The identity provider refuses a second user with the same email.        *)
EmailFree(email) == \A u \in users : u.email # email

(* .maybeSingle(): the row when there is exactly one, null when there is   *)
(* none, an error (and null) when there are several.                       *)
MaybeSingleError(rows) == Cardinality(rows) > 1
MaybeSingleFound(rows) == Cardinality(rows) = 1

ProfileRow(user_id, wallet_address, role, display_name) ==
  [id |-> Cardinality(profiles) + 1, user_id |-> user_id, wallet_address |-> wallet_address,
   role |-> role, display_name |-> display_name, onboarded |-> FALSE]

RoleRow(user_id, role) == [id |-> Cardinality(user_roles) + 1, user_id |-> user_id, role |-> role]

(* -------------------- wallet-auth: identity resolution ----------------- *)
(* The profile is looked up by the lower-cased address.                    *)
LookupKeyAsSubmitted(q) == q.wallet_address
LookupKey(q) == q.normalizedAddress

(* profiles.select('id, user_id').eq('wallet_address', ...).maybeSingle()  *)
Lookup(r) ==
  /\ reqs[r].pc = "lookup"
  /\ \E ok \in Outcomes :
       /\ failures' = Count(ok)
       /\ LET rows == {[id |-> p.id, user_id |-> p.user_id] :
                         p \in {q \in profiles : q.wallet_address = LookupKey(reqs[r])}}
              existingProfile == IF MaybeSingleFound(rows) THEN CHOOSE x \in rows : TRUE ELSE NoProfile
          IN IF ~ok \/ MaybeSingleError(rows)
             THEN reqs' = Fail500(r, "profiles.select", "Failed to verify wallet", ~ok)
             ELSE reqs' = [reqs EXCEPT ![r].calls = @ \cup {"profiles.select"},
                                       ![r].existingProfile = existingProfile,
                                       ![r].userId = existingProfile.user_id,
                                       ![r].pc = IF existingProfile.user_id # 0
                                                 THEN "getUser" ELSE "createUser"]
  /\ UNCHANGED <<auth, login, users, links, profiles, user_roles, session, subs>>

(* Case A goes from the fetched user straight to the magic link.           *)
AfterGetUserEnsuresRole == "roleLookup"
AfterGetUser == "genLink"

(* Case A: auth.admin.getUserById(existingProfile.user_id)                 *)
GetUser(r) ==
  /\ reqs[r].pc = "getUser"
  /\ \E ok \in Outcomes :
       /\ failures' = Count(ok)
       /\ LET found == {u \in users : u.id = reqs[r].userId}
          IN IF ~ok \/ found = {}
             THEN reqs' = Fail500(r, "getUserById", "Failed to verify wallet", ~ok)
             ELSE reqs' = [reqs EXCEPT ![r].calls = @ \cup {"getUserById"},
                                       ![r].userEmail = (CHOOSE u \in found : TRUE).email,
                                       ![r].pc = AfterGetUser]
  /\ UNCHANGED <<auth, login, users, links, profiles, user_roles, session, subs>>

(* Case B: auth.admin.createUser({email, email_confirm, user_metadata})    *)
CreateUser(r) ==
  /\ reqs[r].pc = "createUser"
  /\ \E ok \in Outcomes :
       /\ failures' = Count(ok)
       /\ LET email == Email(reqs[r].normalizedAddress)
              newUser == [id |-> Cardinality(users) + 1, email |-> email,
                          wallet_address |-> reqs[r].normalizedAddress]
          IN IF ~ok \/ ~EmailFree(email)
             THEN /\ reqs' = Fail500(r, "createUser", "Failed to create user account", ~ok)
                  /\ users' = users
             ELSE /\ users' = users \cup {newUser}
                  /\ reqs' = [reqs EXCEPT ![r].calls = @ \cup {"createUser"},
                                          ![r].effects = @ \cup {"createUser"},
                                          ![r].userId = newUser.id,
                                          ![r].userEmail = newUser.email,
                                          ![r].pc = "linkProfile"]
  /\ UNCHANGED <<auth, login, links, profiles, user_roles, session, subs>>

(* profiles.update({user_id}).eq('id', id)                                 *)
UpdateUserIdEverywhere(id, user_id) == {[p EXCEPT !.user_id = user_id] : p \in profiles}
UpdateUserId(id, user_id) ==
  {IF p.id = id THEN [p EXCEPT !.user_id = user_id] ELSE p : p \in profiles}

(* The new user's profile: the unlinked row is updated in place, else a    *)
(* row is inserted.  Neither call's error is looked at.                    *)
LinkProfile(r) ==
  /\ reqs[r].pc = "linkProfile"
  /\ \E ok \in Outcomes :
       /\ failures' = Count(ok)
       /\ IF reqs[r].existingProfile.id # 0
          THEN /\ profiles' = IF ok
                              THEN UpdateUserId(reqs[r].existingProfile.id, reqs[r].userId)
                              ELSE profiles
               /\ reqs' = [reqs EXCEPT ![r].calls = @ \cup {"profiles.update"},
                                       ![r].effects = IF ok THEN @ \cup {"profiles.update"} ELSE @,
                                       ![r].failed = IF ok THEN @ ELSE @ \cup {"profiles.update"},
                                       ![r].pc = "roleLookup"]
          ELSE LET inserted == ok /\ WalletUnique(reqs[r].normalizedAddress)
               IN /\ profiles' = IF inserted
                                 THEN profiles \cup {ProfileRow(reqs[r].userId,
                                                       reqs[r].normalizedAddress, "student", "")}
                                 ELSE profiles
                  /\ reqs' = [reqs EXCEPT ![r].calls = @ \cup {"profiles.insert"},
                                          ![r].effects = IF inserted THEN @ \cup {"profiles.insert"} ELSE @,
                                          ![r].failed = IF ok THEN @ ELSE @ \cup {"profiles.insert"},
                                          ![r].pc = "roleLookup"]
  /\ UNCHANGED <<auth, login, users, links, user_roles, session, subs>>

(* user_roles.select('id').eq(user_id).eq(role, 'student').maybeSingle()   *)
RoleLookup(r) ==
  /\ reqs[r].pc = "roleLookup"
  /\ \E ok \in Outcomes :
       /\ failures' = Count(ok)
       /\ LET rows == {x \in user_roles : x.user_id = reqs[r].userId /\ x.role = "student"}
          IN reqs' = [reqs EXCEPT ![r].calls = @ \cup {"user_roles.select"},
                                  ![r].failed = IF ok THEN @ ELSE @ \cup {"user_roles.select"},
                                  ![r].pc = IF ~ok \/ MaybeSingleError(rows) \/ MaybeSingleFound(rows)
                                            THEN "genLink" ELSE "roleInsert"]
  /\ UNCHANGED <<auth, login, users, links, profiles, user_roles, session, subs>>

(* user_roles.insert({user_id, role: 'student'}); an error is only logged. *)
RoleInsert(r) ==
  /\ reqs[r].pc = "roleInsert"
  /\ \E ok \in Outcomes :
       /\ failures' = Count(ok)
       /\ LET inserted == ok /\ RoleUnique(reqs[r].userId, "student")
          IN /\ user_roles' = IF inserted THEN user_roles \cup {RoleRow(reqs[r].userId, "student")}
                              ELSE user_roles
             /\ reqs' = [reqs EXCEPT ![r].calls = @ \cup {"user_roles.insert"},
                                     ![r].effects = IF inserted THEN @ \cup {"user_roles.insert"} ELSE @,
                                     ![r].failed = IF ok THEN @ ELSE @ \cup {"user_roles.insert"},
                                     ![r].pc = "genLink"]
  /\ UNCHANGED <<auth, login, users, links, profiles, session, subs>>

(* auth.admin.generateLink({type: 'magiclink', email}) and the response.   *)
GenLink(r) ==
  /\ reqs[r].pc = "genLink"
  /\ \E ok \in Outcomes :
       /\ failures' = Count(ok)
       /\ IF ~ok
          THEN /\ reqs' = Fail500(r, "generateLink", "Failed to create session", TRUE)
               /\ links' = links
          ELSE LET token == Cardinality(links) + 1
               IN /\ links' = links \cup {[token |-> token, email |-> reqs[r].userEmail, used |-> FALSE]}
                  /\ reqs' = [reqs EXCEPT ![r].calls = @ \cup {"generateLink"},
                                          ![r].effects = @ \cup {"generateLink"},
                                          ![r].pc = "done", ![r].status = 200,
                                          ![r].user = [id |-> reqs[r].userId,
                                                       email |-> reqs[r].userEmail,
                                                       wallet_address |-> reqs[r].normalizedAddress],
                                          ![r].token_hash = token]
  /\ UNCHANGED <<auth, login, users, profiles, user_roles, session, subs>>


(* ------------------------------ the browser ---------------------------- *)
(* supabase.auth.verifyOtp({token_hash, type: 'magiclink'}) with the token *)
(* of a 200 response: a single-use token becomes the browser's session.    *)
SignIn(r) ==
  /\ reqs[r].pc = "done"
  /\ reqs[r].status = 200
  /\ \E l \in links :
       /\ l.token = reqs[r].token_hash
       /\ ~l.used
       /\ \E u \in users :
            /\ u.email = l.email
            /\ session' = u.id
       /\ links' = (links \ {l}) \cup {[l EXCEPT !.used = TRUE]}
  /\ UNCHANGED <<auth, login, users, profiles, user_roles, reqs, subs, failures>>

(* user.user_metadata?.wallet_address of the signed-in user.               *)
MetadataWallet(user) ==
  IF \E u \in users : u.id = user
  THEN (CHOOSE u \in users : u.id = user).wallet_address
  ELSE EmptyStr

(* handleSubmit of StudentOnboarding ("student") or VerifierOnboarding     *)
(* ("verifier") up to its first await; it returns at once when nobody is   *)
(* signed in or no wallet address is known.  `connected` is wallet.address *)
(* of the wallet context at that moment (empty when none is connected).    *)
Submit(s, form, connected) ==
  /\ subs[s].pc = "idle"
  /\ \A q \in Submits : q < s => subs[q].pc # "idle"
  /\ Started < MaxOps
  /\ session # 0
  /\ LET walletAddress == IF Truthy(connected) THEN connected ELSE MetadataWallet(session)
     IN /\ Truthy(walletAddress)
        /\ subs' = [subs EXCEPT ![s] = [IdleSub EXCEPT !.pc = "check", !.form = form,
                                         !.user = session, !.walletAddress = walletAddress]]
  /\ UNCHANGED <<auth, login, users, links, profiles, user_roles, reqs, session, failures>>

(* profiles.select('id').eq('user_id', user.id).maybeSingle(): only data   *)
(* is read, so an error counts as "no profile".  rowsSeen is the number of *)
(* rows the query returned, existed tells whether the table held a row of  *)
(* the user when it ran.                                                   *)
OnboardCheck(s) ==
  /\ subs[s].pc = "check"
  /\ \E ok \in Outcomes :
       /\ failures' = Count(ok)
       /\ LET rows == {p \in profiles : p.user_id = subs[s].user}
              existingProfile == ok /\ MaybeSingleFound(rows)
          IN subs' = [subs EXCEPT ![s].pc = IF existingProfile THEN "done" ELSE "insert",
                                  ![s].result = IF existingProfile THEN "exists" ELSE "",
                                  ![s].rowsSeen = IF ok THEN Cardinality(rows) ELSE 0,
                                  ![s].existed = rows # {}]
  /\ UNCHANGED <<auth, login, users, links, profiles, user_roles, reqs, session>>

(* profiles.insert({user_id, wallet_address: lower-cased, role, ...})      *)
OnboardInsert(s) ==
  /\ subs[s].pc = "insert"
  /\ \E ok \in Outcomes :
       /\ failures' = Count(ok)
       /\ LET wallet_address == toLowerCase(subs[s].walletAddress)
              inserted == ok /\ WalletUnique(wallet_address)
          IN /\ profiles' = IF inserted
                            THEN profiles \cup {ProfileRow(subs[s].user, wallet_address,
                                                           subs[s].form, "name")}
                            ELSE profiles
             /\ subs' = [subs EXCEPT ![s].pc = IF inserted THEN "role" ELSE "done",
                                     ![s].result = IF inserted THEN "" ELSE "error",
                                     ![s].effects = IF inserted THEN @ \cup {"profiles.insert"} ELSE @]
  /\ UNCHANGED <<auth, login, users, links, user_roles, reqs, session>>

(* user_roles.upsert({user_id, role}, {onConflict: 'user_id,role',         *)
(* ignoreDuplicates: true})                                                *)
OnboardRole(s) ==
  /\ subs[s].pc = "role"
  /\ \E ok \in Outcomes :
       /\ failures' = Count(ok)
       /\ LET inserted == ok /\ RoleUnique(subs[s].user, subs[s].form)
          IN /\ user_roles' = IF inserted
                              THEN user_roles \cup {RoleRow(subs[s].user, subs[s].form)}
                              ELSE user_roles
             /\ subs' = [subs EXCEPT ![s].pc = "done",
                                     ![s].result = IF ok THEN "ok" ELSE "error",
                                     ![s].effects = IF inserted THEN @ \cup {"user_roles.insert"} ELSE @]
  /\ UNCHANGED <<auth, login, users, links, profiles, reqs, session>>


(* ------------------ the client: authenticateWithWallet ----------------- *)
WALLET_SIGN_MESSAGE == "EduVerify login: Sign this message to verify wallet ownership"
MetaMaskNotInstalled == "MetaMask is not installed"
WalletRejected == "User rejected the request."
FetchFailed == "Failed to fetch"
WalletNotConnected == "Wallet not connected"

(* The wallet whose key the extension signs with for an address.           *)
WalletOf(address) == CHOOSE w \in Wallets : LowerAddr(w) = toLowerCase(address)

SameAddressAlways(activeAddress, connectedWalletAddress) == TRUE

(* activeAddress.toLowerCase() === connectedWalletAddress.toLowerCase()    *)
SameAddress(activeAddress, connectedWalletAddress) ==
  toLowerCase(activeAddress) = toLowerCase(connectedWalletAddress)

ResponseOkAny(status) == TRUE

(* response.ok of fetch                                                    *)
ResponseOk(status) == status \in 200..299

(* The onAuthStateChange callback of the AuthProvider, called with the new *)
(* session.  The refreshProfile it awaits is the one of the first render,  *)
(* the effect having no dependencies: its `user` is the initial null, so   *)
(* it sets profile to null and roles to [] and returns.                    *)
Listener(a, newSession) ==
  IF ~a.mounted THEN a
  ELSE [a EXCEPT !.session = newSession, !.user = newSession,
                 !.profile = NullProfile, !.roles = {}, !.loadedFor = 0,
                 !.isLoading = FALSE, !.lastOp = ""]

(* The catch of authenticateWallet without its finally.                    *)
LoginFailsStillAuthenticating(msg, steps) ==
  /\ login' = [login EXCEPT !.pc = "done", !.error = msg, !.steps = steps]
  /\ auth' = [auth EXCEPT !.error = msg, !.lastOp = ""]

(* The catch and finally of AuthContext.authenticateWallet around a call   *)
(* that threw an Error with message msg.                                   *)
LoginFails(msg, steps) ==
  /\ login' = [login EXCEPT !.pc = "done", !.error = msg, !.steps = steps]
  /\ auth' = [auth EXCEPT !.isAuthenticating = FALSE, !.error = msg, !.lastOp = ""]

(* authenticateWallet() with wallet.address = connected, up to the first   *)
(* await of signLoginMessage; ethereum says whether window.ethereum is     *)
(* there.                                                                  *)
LoginStart(connected, ethereum) ==
  /\ login.pc \in {"idle", "done"}
  /\ login.other # "eth_requestAccounts"
  /\ auth.mounted
  /\ ~auth.isAuthenticating
  /\ Truthy(connected)
  /\ \E r \in Requests : reqs[r].pc = "idle"
  /\ IF ~ethereum
     THEN /\ login' = [IdleLogin EXCEPT !.pc = "done", !.connectedWalletAddress = connected,
                                        !.error = MetaMaskNotInstalled]
          /\ auth' = [auth EXCEPT !.isAuthenticating = FALSE, !.error = MetaMaskNotInstalled,
                                  !.lastOp = ""]
     ELSE /\ login' = [IdleLogin EXCEPT !.pc = "accounts", !.connectedWalletAddress = connected,
                                        !.ethereum = TRUE,
                                        !.steps = <<"eth_requestAccounts">>]
          /\ auth' = [auth EXCEPT !.isAuthenticating = TRUE, !.error = "", !.lastOp = ""]
  /\ UNCHANGED <<users, links, profiles, user_roles, reqs, session, subs, failures>>

(* authenticateWallet() with no wallet.address: it throws before it sets   *)
(* any state.                                                              *)
LoginNotConnected ==
  /\ login.pc \in {"idle", "done"}
  /\ auth.mounted
  /\ ~auth.isAuthenticating
  /\ login' = [IdleLogin EXCEPT !.pc = "done", !.error = WalletNotConnected]
  /\ UNCHANGED <<auth, users, links, profiles, user_roles, reqs, session, subs, failures>>

(* A second authenticateWallet() while the first is in flight, up to the   *)
(* first await of its signLoginMessage: nothing in authenticateWallet      *)
(* looks at isAuthenticating.                                              *)
OverlapStart ==
  /\ login.pc \notin {"idle", "done"}
  /\ login.other = "idle"
  /\ auth.mounted
  /\ login' = [login EXCEPT !.other = "eth_requestAccounts"]
  /\ auth' = [auth EXCEPT !.isAuthenticating = TRUE, !.error = "", !.lastOp = ""]
  /\ UNCHANGED <<users, links, profiles, user_roles, reqs, session, subs, failures>>

(* The extension rejects the account request of the second call: its catch *)
(* and finally run.                                                        *)
OverlapRejected ==
  /\ login.other = "eth_requestAccounts"
  /\ login' = [login EXCEPT !.other = "done"]
  /\ auth' = [auth EXCEPT !.isAuthenticating = FALSE, !.error = WalletRejected, !.lastOp = ""]
  /\ UNCHANGED <<users, links, profiles, user_roles, reqs, session, subs, failures>>

(* eth_requestAccounts settles: rejected, or with the list accounts.       *)
Accounts(rejected, accounts) ==
  /\ login.pc = "accounts"
  /\ rejected => accounts = <<>>
  /\ LET failed(msg) ==
           /\ login' = [login EXCEPT !.pc = "done", !.error = msg, !.rejected = rejected,
                                     !.accounts = accounts,
                                     !.activeAddress = IF accounts = <<>> THEN EmptyStr
                                                       ELSE accounts[1]]
           /\ auth' = [auth EXCEPT !.isAuthenticating = FALSE, !.error = msg, !.lastOp = ""]
     IN IF rejected THEN failed(WalletRejected)
        ELSE IF accounts = <<>> THEN failed(FRIENDLY_VERIFY_ERROR)
        ELSE IF ~SameAddress(accounts[1], login.connectedWalletAddress)
        THEN failed(FRIENDLY_VERIFY_ERROR)
        ELSE /\ login' = [login EXCEPT !.pc = "personal_sign", !.accounts = accounts,
                                       !.activeAddress = accounts[1],
                                       !.steps = Append(@, "personal_sign")]
             /\ auth' = auth
  /\ UNCHANGED <<users, links, profiles, user_roles, reqs, session, subs, failures>>

(* personal_sign settles: rejected, or with the signature of the active    *)
(* address over the fixed message; signLoginMessage returns.               *)
PersonalSign(rejected) ==
  /\ login.pc = "personal_sign"
  /\ IF rejected THEN LoginFails(WalletRejected, login.steps)
     ELSE /\ login' = [login EXCEPT !.pc = "fetch",
                         !.signed = [wallet_address |-> login.activeAddress,
                                     message |-> WALLET_SIGN_MESSAGE,
                                     signature |-> Sig(WalletOf(login.activeAddress),
                                                       WALLET_SIGN_MESSAGE)]]
          /\ auth' = auth
  /\ UNCHANGED <<users, links, profiles, user_roles, reqs, session, subs, failures>>

(* verifySignature: the POST to /verify reaches the function as request r, *)
(* or fetch rejects.                                                       *)
LoginFetch(r) ==
  /\ login.pc = "fetch"
  /\ \E ok \in Outcomes :
       /\ failures' = Count(ok)
       /\ IF ok
          THEN /\ ReceiveReq(r, [method |-> "POST", action |-> "verify",
                                 wallet_address |-> login.signed.wallet_address,
                                 signature |-> login.signed.signature,
                                 message |-> login.signed.message])
               /\ login' = [login EXCEPT !.pc = "awaitVerify", !.req = r,
                                         !.steps = Append(@, "verify")]
               /\ auth' = auth
          ELSE /\ reqs' = reqs
               /\ LoginFails(FetchFailed, Append(login.steps, "verify"))
  /\ UNCHANGED <<users, links, profiles, user_roles, session, subs>>

(* The response of /verify arrives.                                        *)
LoginResponse ==
  /\ login.pc = "awaitVerify"
  /\ reqs[login.req].pc = "done"
  /\ IF ~ResponseOk(reqs[login.req].status)
     THEN LoginFails(FRIENDLY_VERIFY_ERROR, login.steps)
     ELSE /\ login' = [login EXCEPT !.pc = "redeem", !.token_hash = reqs[login.req].token_hash]
          /\ auth' = auth
  /\ UNCHANGED <<users, links, profiles, user_roles, reqs, session, subs, failures>>

(* supabase.auth.verifyOtp({token_hash, type: 'magiclink'}): the token is  *)
(* redeemed once, the session is stored and the auth listener is notified  *)
(* before the call returns; or the call returns an error.                  *)
LoginRedeem ==
  /\ login.pc = "redeem"
  /\ \E ok \in Outcomes :
       /\ failures' = Count(ok)
       /\ LET valid == {l \in links : l.token = login.token_hash /\ ~l.used
                                      /\ \E u \in users : u.email = l.email}
          IN IF ok /\ valid # {}
             THEN LET l == CHOOSE x \in valid : TRUE
                      u == CHOOSE x \in users : x.email = l.email
                  IN /\ links' = (links \ {l}) \cup {[l EXCEPT !.used = TRUE]}
                     /\ session' = u.id
                     /\ auth' = [Listener(auth, u.id) EXCEPT !.isAuthenticating = FALSE]
                     /\ login' = [login EXCEPT !.pc = "done",
                                               !.steps = Append(@, "verifyOtp")]
             ELSE /\ links' = links
                  /\ session' = session
                  /\ LoginFails(FRIENDLY_VERIFY_ERROR, Append(login.steps, "verifyOtp"))
  /\ UNCHANGED <<users, profiles, user_roles, reqs, subs>>


(* ----------------------- the client: AuthProvider ---------------------- *)
(* initializeAuth once getSession has settled: restoredSession is the      *)
(* session the browser has stored.  The awaited refreshProfile is the one  *)
(* of the first render (see Listener).                                     *)
InitializeAuth ==
  /\ auth.init = "getSession"
  /\ \E ok \in Outcomes :
       /\ failures' = Count(ok)
       /\ auth' = IF ok /\ auth.mounted /\ session # 0
                  THEN [auth EXCEPT !.init = "done", !.session = session, !.user = session,
                                    !.profile = NullProfile, !.roles = {}, !.loadedFor = 0,
                                    !.isLoading = FALSE, !.lastOp = ""]
                  ELSE [auth EXCEPT !.init = "done", !.isLoading = FALSE, !.lastOp = ""]
  /\ UNCHANGED <<users, links, profiles, user_roles, reqs, session, subs, login>>

(* The INITIAL_SESSION notification that follows the subscription.         *)
InitialSession ==
  /\ auth.initialEvent
  /\ auth' = [Listener(auth, session) EXCEPT !.initialEvent = FALSE]
  /\ UNCHANGED <<users, links, profiles, user_roles, reqs, session, subs, failures, login>>

(* fetchProfile that answers an error with the profile it has cached.      *)
fetchProfileKeepsCached(userId, ok) ==
  LET rows == {p \in profiles : p.user_id = userId}
  IN IF ok /\ MaybeSingleFound(rows) THEN CHOOSE p \in rows : TRUE ELSE auth.profile

(* fetchProfile: the row, or null on an error or on several rows.          *)
fetchProfile(userId, ok) ==
  LET rows == {p \in profiles : p.user_id = userId}
  IN IF ok /\ MaybeSingleFound(rows) THEN CHOOSE p \in rows : TRUE ELSE NullProfile

(* fetchRoles: the roles of the rows, or [] on an error.                   *)
fetchRoles(userId, ok) ==
  IF ok THEN {x.role : x \in {y \in user_roles : y.user_id = userId}} ELSE {}

(* refreshProfile() of the current render, called by a component (the      *)
(* onboarding forms do after their insert), up to its await.               *)
RefreshStart ==
  /\ auth.mounted
  /\ auth.refreshing = 0
  /\ auth' = IF auth.user = 0
             THEN [auth EXCEPT !.profile = NullProfile, !.roles = {}, !.loadedFor = 0,
                               !.lastOp = "refreshProfile"]
             ELSE [auth EXCEPT !.error = "", !.refreshing = auth.user, !.lastOp = ""]
  /\ UNCHANGED <<users, links, profiles, user_roles, reqs, session, subs, failures, login>>

(* Both fetches have settled: setProfile(profileData), setRoles(rolesData). *)
RefreshDone ==
  /\ auth.refreshing # 0
  /\ \E ok \in Outcomes :
       /\ failures' = Count(ok)
       /\ auth' = [auth EXCEPT !.profile = fetchProfile(auth.refreshing, ok),
                               !.roles = fetchRoles(auth.refreshing, ok),
                               !.loadedFor = auth.refreshing,
                               !.refreshing = 0, !.lastOp = "refreshProfile"]
  /\ UNCHANGED <<users, links, profiles, user_roles, reqs, session, subs, login>>

(* fetchProfile(user.id) of a refreshProfile in flight settles.            *)
FetchProfileSettled ==
  /\ auth.refreshing # 0
  /\ ~auth.profileData.settled
  /\ \E ok \in Outcomes :
       /\ failures' = Count(ok)
       /\ auth' = [auth EXCEPT !.profileData =
                     [settled |-> TRUE, value |-> fetchProfile(auth.refreshing, ok)]]
  /\ UNCHANGED <<users, links, profiles, user_roles, reqs, session, subs, login>>

(* fetchRoles(user.id) of a refreshProfile in flight settles.              *)
FetchRolesSettled ==
  /\ auth.refreshing # 0
  /\ ~auth.rolesData.settled
  /\ \E ok \in Outcomes :
       /\ failures' = Count(ok)
       /\ auth' = [auth EXCEPT !.rolesData =
                     [settled |-> TRUE, value |-> fetchRoles(auth.refreshing, ok)]]
  /\ UNCHANGED <<users, links, profiles, user_roles, reqs, session, subs, login>>

(* A combinator that resolves with the first promise to settle.            *)
AnySettled(profileData, rolesData) == profileData.settled \/ rolesData.settled

(* Promise.all resolves once both promises have.                           *)
PromiseAll(profileData, rolesData) == profileData.settled /\ rolesData.settled

(* The continuation of refreshProfile after await Promise.all([...]):      *)
(* setProfile(profileData), setRoles(rolesData).                           *)
RefreshJoin ==
  /\ auth.refreshing # 0
  /\ PromiseAll(auth.profileData, auth.rolesData)
  /\ auth' = [auth EXCEPT !.profile = auth.profileData.value,
                          !.roles = auth.rolesData.value,
                          !.loadedFor = auth.refreshing,
                          !.refreshing = 0, !.lastOp = "refreshProfile",
                          !.profileData = PendingProfile, !.rolesData = PendingRoles]
  /\ UNCHANGED <<users, links, profiles, user_roles, reqs, session, subs, failures, login>>

(* signOut() up to its await.                                              *)
SignOutStart ==
  /\ auth.mounted
  /\ ~auth.signingOut
  /\ auth' = [auth EXCEPT !.isLoading = TRUE, !.signingOut = TRUE, !.lastOp = ""]
  /\ UNCHANGED <<users, links, profiles, user_roles, reqs, session, subs, failures, login>>

SignOutOutcomes == IF failures < MaxFailures THEN {"ok", "error", "throws"} ELSE {"ok"}

(* The local state after the five setters of signOut.                      *)
Cleared(a) ==
  [a EXCEPT !.user = 0, !.session = 0, !.profile = NullProfile, !.roles = {},
            !.error = "", !.loadedFor = 0]

(* supabase.auth.signOut() settles.  "ok": the stored session is removed   *)
(* and the listener notified, then the setters run.  "error": the call     *)
(* returns {error}, which is not read: the setters run.  "throws": the     *)
(* catch only logs.  finally: setIsLoading(false).                         *)
SignOutDone ==
  /\ auth.signingOut
  /\ \E outcome \in SignOutOutcomes :
       /\ failures' = IF outcome = "ok" THEN failures ELSE failures + 1
       /\ session' = IF outcome = "ok" THEN 0 ELSE session
       /\ LET notified == IF outcome = "ok" THEN Listener(auth, 0) ELSE auth
              after == IF outcome = "throws" THEN notified ELSE Cleared(notified)
          IN auth' = [after EXCEPT !.isLoading = FALSE, !.signingOut = FALSE,
                                   !.lastOp = "signOut"]
  /\ UNCHANGED <<users, links, profiles, user_roles, reqs, subs, login>>

hasRole(role) == role \in auth.roles

needsOnboardingWithoutUser == auth.profile = NullProfile \/ ~auth.profile.onboarded

needsOnboarding ==
  IF auth.user = 0 THEN FALSE
  ELSE auth.profile = NullProfile \/ ~auth.profile.onboarded

(* onboardingComplete() of the current render up to its await; it throws   *)
(* at once without a user.                                                 *)
OnboardingCompleteStart ==
  /\ auth.mounted
  /\ auth.user # 0
  /\ ~auth.completing.active
  /\ auth' = [auth EXCEPT !.completing = [active |-> TRUE, user |-> auth.user,
                                          profile |-> auth.profile,
                                          repeat |-> (auth.lastOp = "onboardingComplete")],
                          !.lastOp = ""]
  /\ UNCHANGED <<users, links, profiles, user_roles, reqs, session, subs, failures, login>>

(* The table after update({onboarded: true}).eq("user_id", user_id).       *)
MarkOnboardedEveryRow(user_id) == {[p EXCEPT !.onboarded = TRUE] : p \in profiles}

MarkOnboarded(user_id) ==
  {IF p.user_id = user_id THEN [p EXCEPT !.onboarded = TRUE] ELSE p : p \in profiles}

(* profiles.update({onboarded: true}).eq('user_id', user.id) settles; on   *)
(* success the profile of the calling render, if it had one, is set with   *)
(* onboarded true.                                                         *)
OnboardingCompleteDone ==
  /\ auth.completing.active
  /\ \E ok \in Outcomes :
       /\ failures' = Count(ok)
       /\ LET c == auth.completing
              idle == [active |-> FALSE, user |-> 0, profile |-> NullProfile,
                       repeat |-> c.repeat]
          IN IF ok
             THEN /\ profiles' = MarkOnboarded(c.user)
                  /\ auth' = [auth EXCEPT !.profile = IF c.profile # NullProfile
                                                      THEN [c.profile EXCEPT !.onboarded = TRUE]
                                                      ELSE @,
                                          !.completing = idle,
                                          !.lastOp = "onboardingComplete"]
             ELSE /\ profiles' = profiles
                  /\ auth' = [auth EXCEPT !.completing = idle,
                                          !.lastOp = "onboardingComplete threw"]
  /\ UNCHANGED <<users, links, user_roles, reqs, session, subs, login>>

(* ------------------------- the routing guards -------------------------- *)
(* Paths are sequences of characters.                                      *)
RootPath == <<"/">>
OnboardingPrefix == <<"/", "o", "n", "b", "o", "a", "r", "d", "i", "n", "g">>
DashboardPrefix == <<"/", "d", "a", "s", "h", "b", "o", "a", "r", "d">>
SignInPath == <<"/", "a", "u", "t", "h", "/", "s", "i", "g", "n", "-", "i", "n">>
SelectRolePath == <<"/", "o", "n", "b", "o", "a", "r", "d", "i", "n", "g", "/", "s", "e", "l", "e", "c", "t", "-", "r", "o", "l", "e">>
StudentDashboardPath == <<"/", "d", "a", "s", "h", "b", "o", "a", "r", "d", "/", "s", "t", "u", "d", "e", "n", "t">>
VerifierDashboardPath == <<"/", "d", "a", "s", "h", "b", "o", "a", "r", "d", "/", "v", "e", "r", "i", "f", "i", "e", "r">>

startsWith(path, prefix) ==
  Len(path) >= Len(prefix) /\ SubSeq(path, 1, Len(prefix)) = prefix

RoleChars(role) ==
  CASE role = "student" -> <<"s", "t", "u", "d", "e", "n", "t">>
    [] role = "issuer" -> <<"i", "s", "s", "u", "e", "r">>
    [] role = "verifier" -> <<"v", "e", "r", "i", "f", "i", "e", "r">>
    [] role = "admin" -> <<"a", "d", "m", "i", "n">>
    [] OTHER -> <<"u", "n", "d", "e", "f", "i", "n", "e", "d">>

(* `/dashboard/${roles[0]}`: the first of the fetched roles (the rows come *)
(* in no stated order; here the first is a fixed one of them), the text    *)
(* "undefined" when there is none.                                         *)
DashboardOf(roles) ==
  DashboardPrefix \o RootPath \o RoleChars(IF roles = {} THEN "" ELSE CHOOSE r \in roles : TRUE)

(* The value of the AuthContext.Provider, its data fields: what useAuth()  *)
(* returns to a component.                                                 *)
useAuth ==
  [user |-> auth.user, session |-> auth.session, profile |-> auth.profile,
   roles |-> auth.roles, isLoading |-> auth.isLoading,
   isAuthenticating |-> auth.isAuthenticating, error |-> auth.error]

(* A flag a guard destructures from the context value: "true" or "false"   *)
(* when the value has the field, "undefined" when it has not.              *)
Flag(ctx, field) == IF field \in DOMAIN ctx THEN ctx[field] ELSE "undefined"

(* The two flags the guards destructure and the provider value above does  *)
(* not carry, as the state machine of the specification defines them:      *)
(* isOnboarded is the onboarded flag of the cached profile (never inferred *)
(* from the profile's existence), profileLoaded tells that the profile and *)
(* roles of the present identity have been fetched.                        *)
IsOnboarded == auth.profile.onboarded
ProfileLoaded == auth.loadedFor = auth.user

ToFlag(b) == IF b THEN "true" ELSE "false"

(* The provider value with the two flags.                                  *)
useAuthWithFlags ==
  [user |-> auth.user, session |-> auth.session, profile |-> auth.profile,
   roles |-> auth.roles, isLoading |-> auth.isLoading,
   isAuthenticating |-> auth.isAuthenticating, error |-> auth.error,
   profileLoaded |-> ToFlag(ProfileLoaded), isOnboarded |-> ToFlag(IsOnboarded)]

Spinner == [render |-> "spinner", to |-> <<>>]
Children == [render |-> "children", to |-> <<>>]
Navigate(to) == [render |-> "Navigate", to |-> to]

(* ProtectedRoute.tsx, the variant that waits for profileLoaded.           *)
ProtectedRouteProfileLoaded(ctx, requiredRole, requireAuth, path) ==
  LET user == ctx.user # 0
      profileLoaded == Flag(ctx, "profileLoaded") = "true"
      isOnboarded == Flag(ctx, "isOnboarded") = "true"
  IN IF ctx.isLoading \/ ~profileLoaded THEN Spinner
     ELSE IF requireAuth /\ ~user THEN Navigate(SignInPath)
     ELSE IF user /\ ~isOnboarded
     THEN IF ~startsWith(path, OnboardingPrefix) THEN Navigate(SelectRolePath) ELSE Children
     ELSE IF user /\ isOnboarded /\ startsWith(path, OnboardingPrefix)
     THEN Navigate(DashboardOf(ctx.roles))
     ELSE IF requiredRole # "" /\ requiredRole \notin ctx.roles
     THEN Navigate(DashboardOf(ctx.roles))
     ELSE Children

(* ProtectedRoute.tsx, the variant that does not handle loading.           *)
ProtectedRouteNoLoading(ctx, requiredRole, requireAuth, path) ==
  LET user == ctx.user # 0
      isOnboarded == Flag(ctx, "isOnboarded") = "true"
  IN IF requireAuth /\ ~user THEN Navigate(SignInPath)
     ELSE IF user /\ ~isOnboarded
     THEN IF ~startsWith(path, OnboardingPrefix) THEN Navigate(SelectRolePath) ELSE Children
     ELSE IF user /\ isOnboarded /\ startsWith(path, OnboardingPrefix)
     THEN Navigate(DashboardOf(ctx.roles))
     ELSE IF requiredRole # "" /\ user /\ requiredRole \notin ctx.roles
     THEN Navigate(DashboardOf(ctx.roles))
     ELSE Children

(* ProtectedRouteGuard.tsx without its fourth step.                        *)
ProtectedRouteGuardWithoutBlock(ctx, requiredRole, requireAuth, path) ==
  LET user == ctx.user # 0
      isOnboarded == Flag(ctx, "isOnboarded") = "true"
  IN IF ctx.isLoading THEN Spinner
     ELSE IF requireAuth /\ ~user THEN Navigate(SignInPath)
     ELSE IF user /\ ~isOnboarded
     THEN IF ~startsWith(path, OnboardingPrefix) THEN Navigate(SelectRolePath) ELSE Children
     ELSE IF requiredRole # "" /\ user /\ requiredRole \notin ctx.roles
     THEN Navigate(DashboardOf(ctx.roles))
     ELSE Children

(* ProtectedRouteGuard.tsx.                                                *)
ProtectedRouteGuard(ctx, requiredRole, requireAuth, path) ==
  LET user == ctx.user # 0
      isOnboarded == Flag(ctx, "isOnboarded") = "true"
  IN IF ctx.isLoading THEN Spinner
     ELSE IF requireAuth /\ ~user THEN Navigate(SignInPath)
     ELSE IF user /\ ~isOnboarded
     THEN IF ~startsWith(path, OnboardingPrefix) THEN Navigate(SelectRolePath) ELSE Children
     ELSE IF user /\ isOnboarded /\ startsWith(path, OnboardingPrefix)
     THEN Navigate(DashboardOf(ctx.roles))
     ELSE IF requiredRole # "" /\ user /\ requiredRole \notin ctx.roles
     THEN Navigate(DashboardOf(ctx.roles))
     ELSE Children

(* The guard with the documented rules (new users must select a role,      *)
(* onboarded users cannot access onboarding, dashboards require onboarding *)
(* and role).                                                              *)
ProtectedRouteRules(ctx, requiredRole, requireAuth, path) ==
  LET user == ctx.user # 0
      isOnboarded == Flag(ctx, "isOnboarded") = "true"
  IN IF ctx.isLoading THEN Spinner
     ELSE IF requireAuth /\ ~user THEN Navigate(SignInPath)
     ELSE IF user /\ ~isOnboarded
     THEN IF path = RootPath \/ startsWith(path, DashboardPrefix)
             \/ ~startsWith(path, OnboardingPrefix)
          THEN Navigate(SelectRolePath) ELSE Children
     ELSE IF user /\ isOnboarded /\ startsWith(path, OnboardingPrefix)
     THEN Navigate(DashboardOf(ctx.roles))
     ELSE IF requiredRole # "" /\ user /\ requiredRole \notin ctx.roles
     THEN Navigate(DashboardOf(ctx.roles))
     ELSE Children

Guards == {"ProtectedRoute.profileLoaded", "ProtectedRoute", "ProtectedRouteGuard", "ProtectedRouteRules"}

(* What guard g renders for the context value ctx, its props and the       *)
(* location; requiredRole "" is the prop left out.                         *)
ProtectedRoute(g, ctx, requiredRole, requireAuth, path) ==
  CASE g = "ProtectedRoute.profileLoaded" ->
         ProtectedRouteProfileLoaded(ctx, requiredRole, requireAuth, path)
    [] g = "ProtectedRoute" -> ProtectedRouteNoLoading(ctx, requiredRole, requireAuth, path)
    [] g = "ProtectedRouteGuard" -> ProtectedRouteGuard(ctx, requiredRole, requireAuth, path)
    [] OTHER -> ProtectedRouteRules(ctx, requiredRole, requireAuth, path)

UserRoles == {"student", "issuer", "verifier", "admin"}
Paths == {RootPath, SignInPath, SelectRolePath, StudentDashboardPath, VerifierDashboardPath}


(* --------------------------- specifications ---------------------------- *)
Messages == {SIGN_MESSAGE, SIGN_MESSAGE \o " ", ""}

VerifyInputs ==
  [method : {"POST"}, action : {"verify"},
   wallet_address : {LowerAddr(1), ChecksumAddr(1), LowerAddr(2)},
   signature : {Sig(1, SIGN_MESSAGE), Sig(2, SIGN_MESSAGE)},
   message : {SIGN_MESSAGE}]

ConnectedWallets == {EmptyStr} \cup {ChecksumAddr(w) : w \in Wallets}

Next ==
  \/ \E r \in Requests, in \in VerifyInputs : Receive(r, in)
  \/ \E r \in Requests : Lookup(r)
  \/ \E r \in Requests : GetUser(r)
  \/ \E r \in Requests : CreateUser(r)
  \/ \E r \in Requests : LinkProfile(r)
  \/ \E r \in Requests : RoleLookup(r)
  \/ \E r \in Requests : RoleInsert(r)
  \/ \E r \in Requests : GenLink(r)
  \/ \E r \in Requests : SignIn(r)
  \/ \E s \in Submits, form \in {"student", "verifier"}, connected \in ConnectedWallets :
       Submit(s, form, connected)
  \/ \E s \in Submits : OnboardCheck(s)
  \/ \E s \in Submits : OnboardInsert(s)
  \/ \E s \in Submits : OnboardRole(s)

Spec == Init /\ [][Next]_vars

(* The wallet-auth requests alone, in any interleaving.                    *)
NextRequests ==
  \/ \E r \in Requests, in \in VerifyInputs : Receive(r, in)
  \/ \E r \in Requests : Lookup(r)
  \/ \E r \in Requests : GetUser(r)
  \/ \E r \in Requests : CreateUser(r)
  \/ \E r \in Requests : LinkProfile(r)
  \/ \E r \in Requests : RoleLookup(r)
  \/ \E r \in Requests : RoleInsert(r)
  \/ \E r \in Requests : GenLink(r)

SpecRequests == Init /\ [][NextRequests]_vars


OneCharOff == "eduVerify login: Sign this message to verify wallet ownership"

(* Requests for one address that the checks accept or reject for each of   *)
(* their reasons.                                                          *)
RejectInputs ==
  [method : {"POST"}, action : {"verify"},
   wallet_address : {ChecksumAddr(1)},
   signature : {Sig(1, SIGN_MESSAGE), Sig(2, SIGN_MESSAGE), Sig(1, OneCharOff), MalformedSig},
   message : {SIGN_MESSAGE, OneCharOff}]

NextReject ==
  \/ \E r \in Requests, in \in RejectInputs : Receive(r, in)
  \/ \E r \in Requests : Lookup(r)
  \/ \E r \in Requests : GetUser(r)
  \/ \E r \in Requests : CreateUser(r)
  \/ \E r \in Requests : LinkProfile(r)
  \/ \E r \in Requests : RoleLookup(r)
  \/ \E r \in Requests : RoleInsert(r)
  \/ \E r \in Requests : GenLink(r)

SpecReject == Init /\ [][NextReject]_vars

(* Logins of wallet 1 and onboarding submissions of its user, with the     *)
(* wallet of the login or another one connected.                           *)
RoleInputs ==
  [method : {"POST"}, action : {"verify"},
   wallet_address : {ChecksumAddr(1)},
   signature : {Sig(1, SIGN_MESSAGE)},
   message : {SIGN_MESSAGE}]

NextRoles ==
  \/ \E r \in Requests, in \in RoleInputs : Receive(r, in)
  \/ \E r \in Requests : Lookup(r)
  \/ \E r \in Requests : GetUser(r)
  \/ \E r \in Requests : CreateUser(r)
  \/ \E r \in Requests : LinkProfile(r)
  \/ \E r \in Requests : RoleLookup(r)
  \/ \E r \in Requests : RoleInsert(r)
  \/ \E r \in Requests : GenLink(r)
  \/ \E r \in Requests : SignIn(r)
  \/ \E s \in Submits, form \in {"student", "verifier"}, connected \in {EmptyStr, ChecksumAddr(2)} :
       Submit(s, form, connected)
  \/ \E s \in Submits : OnboardCheck(s)
  \/ \E s \in Submits : OnboardInsert(s)
  \/ \E s \in Submits : OnboardRole(s)

SpecRoles == Init /\ [][NextRoles]_vars

(* One request with any input, against storage that is empty, holds an     *)
(* unlinked profile, or holds what a first login of wallet 1 left.         *)
AllInputs ==
  [method : {"POST", "GET", "OPTIONS"}, action : {"verify", "nonce", "other"},
   wallet_address : {LowerAddr(1), ChecksumAddr(1), LowerAddr(2),
                     ShortAddr, NonHexAddr, UpperPrefixAddr, EmptyStr},
   signature : {Sig(1, SIGN_MESSAGE), Sig(2, SIGN_MESSAGE), Sig(1, SIGN_MESSAGE \o " "),
                Sig(1, OneCharOff), MalformedSig, EmptySig},
   message : Messages \cup {OneCharOff}]

LinkedUser(w) == [id |-> 1, email |-> Email(LowerAddr(w)), wallet_address |-> LowerAddr(w)]
LinkedProfile(w) ==
  [id |-> 1, user_id |-> 1, wallet_address |-> LowerAddr(w), role |-> "student",
   display_name |-> "", onboarded |-> FALSE]

InitVerify ==
  /\ \E db \in {"empty", "unlinked", "linked"} :
       /\ users = IF db = "linked" THEN {LinkedUser(1)} ELSE {}
       /\ profiles = CASE db = "empty" -> {}
                       [] db = "unlinked" -> {UnlinkedProfile(1)}
                       [] OTHER -> {LinkedProfile(1)}
       /\ user_roles = IF db = "linked" THEN {[id |-> 1, user_id |-> 1, role |-> "student"]} ELSE {}
  /\ links = {}
  /\ reqs = [r \in Requests |-> IdleReq]
  /\ session = 0
  /\ subs = [s \in Submits |-> IdleSub]
  /\ failures = 0
  /\ auth = UnmountedAuth
  /\ login = IdleLogin

NextVerify ==
  \/ \E in \in AllInputs : Receive(1, in)
  \/ Lookup(1)
  \/ GetUser(1)
  \/ CreateUser(1)
  \/ LinkProfile(1)
  \/ RoleLookup(1)
  \/ RoleInsert(1)
  \/ GenLink(1)

SpecVerify == InitVerify /\ [][NextVerify]_vars


(* The page: the AuthProvider mounted over storage that is empty or holds  *)
(* what a first login of wallet 1 left (the browser then with or without   *)
(* that session stored).                                                   *)
ConnectedAddresses == {ChecksumAddr(w) : w \in Wallets} \cup {LowerAddr(1)}
AccountLists == {<<>>} \cup {<<a>> : a \in ConnectedAddresses}

MountedAuth == [UnmountedAuth EXCEPT !.mounted = TRUE, !.init = "getSession",
                                     !.initialEvent = TRUE]

InitClient ==
  /\ \E db \in {"empty", "linked", "restored"} :
       /\ users = IF db = "empty" THEN {} ELSE {LinkedUser(1)}
       /\ profiles = IF db = "empty" THEN {} ELSE {LinkedProfile(1)}
       /\ user_roles = IF db = "empty" THEN {} ELSE {[id |-> 1, user_id |-> 1, role |-> "student"]}
       /\ session = IF db = "restored" THEN 1 ELSE 0
  /\ links = {}
  /\ reqs = [r \in Requests |-> IdleReq]
  /\ subs = [s \in Submits |-> IdleSub]
  /\ failures = 0
  /\ auth = MountedAuth
  /\ login = IdleLogin

(* The provider once initializeAuth and the INITIAL_SESSION notification   *)
(* have run with no session stored.                                        *)
ReadyAuth == [MountedAuth EXCEPT !.init = "done", !.initialEvent = FALSE, !.isLoading = FALSE]

InitLogin ==
  /\ \E db \in {"empty", "linked"} :
       /\ users = IF db = "empty" THEN {} ELSE {LinkedUser(1)}
       /\ profiles = IF db = "empty" THEN {} ELSE {LinkedProfile(1)}
       /\ user_roles = IF db = "empty" THEN {} ELSE {[id |-> 1, user_id |-> 1, role |-> "student"]}
  /\ session = 0
  /\ links = {}
  /\ reqs = [r \in Requests |-> IdleReq]
  /\ subs = [s \in Submits |-> IdleSub]
  /\ failures = 0
  /\ auth = ReadyAuth
  /\ login = IdleLogin

(* The login flow of the signed-out page, with the function serving it.    *)
NextLogin ==
  \/ \E connected \in ConnectedAddresses, ethereum \in BOOLEAN : LoginStart(connected, ethereum)
  \/ \E rejected \in BOOLEAN, accounts \in AccountLists : Accounts(rejected, accounts)
  \/ \E rejected \in BOOLEAN : PersonalSign(rejected)
  \/ \E r \in Requests : LoginFetch(r)
  \/ LoginResponse
  \/ LoginRedeem
  \/ \E r \in Requests : Lookup(r)
  \/ \E r \in Requests : GetUser(r)
  \/ \E r \in Requests : CreateUser(r)
  \/ \E r \in Requests : LinkProfile(r)
  \/ \E r \in Requests : RoleLookup(r)
  \/ \E r \in Requests : RoleInsert(r)
  \/ \E r \in Requests : GenLink(r)

SpecLogin == InitLogin /\ [][NextLogin]_vars

(* The login flow called with or without a connected wallet.               *)
NextAttempt ==
  \/ NextLogin
  \/ LoginNotConnected

SpecAttempt == InitLogin /\ [][NextAttempt]_vars

(* A signed-in user whose identity exists, with or without profile and     *)
(* role rows, on the onboarding form; components call refreshProfile, and  *)
(* its two fetches settle in either order while the form writes.           *)
InitJoin ==
  /\ users = {LinkedUser(1)}
  /\ \E db \in {"created", "linked"} :
       /\ profiles = IF db = "created" THEN {} ELSE {LinkedProfile(1)}
       /\ user_roles = IF db = "created" THEN {} ELSE {[id |-> 1, user_id |-> 1, role |-> "student"]}
  /\ session = 1
  /\ links = {}
  /\ reqs = [r \in Requests |-> IdleReq]
  /\ subs = [s \in Submits |-> IdleSub]
  /\ failures = 0
  /\ auth = [ReadyAuth EXCEPT !.user = 1, !.session = 1]
  /\ login = IdleLogin

NextJoin ==
  \/ RefreshStart
  \/ FetchProfileSettled
  \/ FetchRolesSettled
  \/ RefreshJoin
  \/ \E form \in {"student", "verifier"} : Submit(1, form, EmptyStr)
  \/ OnboardCheck(1)
  \/ OnboardInsert(1)
  \/ OnboardRole(1)

SpecJoin == InitJoin /\ [][NextJoin]_vars

(* The login flow with a second call made while the first is in flight.    *)
NextOverlap ==
  \/ NextLogin
  \/ OverlapStart
  \/ OverlapRejected

SpecOverlap == InitLogin /\ [][NextOverlap]_vars

(* The functions of the auth context, called in any order.                 *)
NextAuth ==
  \/ InitializeAuth
  \/ InitialSession
  \/ RefreshStart
  \/ RefreshDone
  \/ SignOutStart
  \/ SignOutDone
  \/ OnboardingCompleteStart
  \/ OnboardingCompleteDone

SpecAuth == InitClient /\ [][NextAuth]_vars


(* The whole program over one storage: a login of either wallet, a form    *)
(* submission and the functions of the auth context (the page calling one  *)
(* of them at a time), over storage that holds a pre-provisioned profile   *)
(* of wallet 1 or what a first login of wallet 1 left (its session then    *)
(* stored in the browser).                                                 *)
ProfileInputs ==
  {[method |-> "POST", action |-> "verify", wallet_address |-> ChecksumAddr(w),
    signature |-> Sig(w, SIGN_MESSAGE), message |-> SIGN_MESSAGE] : w \in {1, 2}}

InitProfiles ==
  /\ \E db \in {"unlinked", "restored"} :
       /\ users = IF db = "unlinked" THEN {} ELSE {LinkedUser(1)}
       /\ profiles = IF db = "unlinked" THEN {UnlinkedProfile(1)} ELSE {LinkedProfile(1)}
       /\ user_roles = IF db = "unlinked" THEN {} ELSE {[id |-> 1, user_id |-> 1, role |-> "student"]}
       /\ session = IF db = "restored" THEN 1 ELSE 0
  /\ links = {}
  /\ reqs = [r \in Requests |-> IdleReq]
  /\ subs = [s \in Submits |-> IdleSub]
  /\ failures = 0
  /\ auth = MountedAuth
  /\ login = IdleLogin

(* No context function is in flight.                                       *)
AuthIdle == auth.refreshing = 0 /\ ~auth.signingOut /\ ~auth.completing.active

NextProfiles ==
  \/ \E in \in ProfileInputs : Receive(1, in)
  \/ Lookup(1)
  \/ GetUser(1)
  \/ CreateUser(1)
  \/ LinkProfile(1)
  \/ RoleLookup(1)
  \/ RoleInsert(1)
  \/ GenLink(1)
  \/ SignIn(1)
  \/ \E form \in {"student", "verifier"}, connected \in {EmptyStr, ChecksumAddr(2)} :
       Submit(1, form, connected)
  \/ OnboardCheck(1)
  \/ OnboardInsert(1)
  \/ OnboardRole(1)
  \/ InitializeAuth
  \/ InitialSession
  \/ AuthIdle /\ RefreshStart
  \/ RefreshDone
  \/ AuthIdle /\ SignOutStart
  \/ SignOutDone
  \/ AuthIdle /\ OnboardingCompleteStart
  \/ OnboardingCompleteDone

SpecProfiles == InitProfiles /\ [][NextProfiles]_vars


(* Logins of wallet 1 racing for its pre-provisioned profile, a form       *)
(* submission by the signed-in user and onboardingComplete() of the page   *)
(* loaded once a session is stored.                                        *)
InitBinding ==
  /\ users = {}
  /\ links = {}
  /\ profiles = {UnlinkedProfile(1)}
  /\ user_roles = {}
  /\ reqs = [r \in Requests |-> IdleReq]
  /\ session = 0
  /\ subs = [s \in Submits |-> IdleSub]
  /\ failures = 0
  /\ auth = MountedAuth
  /\ login = IdleLogin

(* The two request slots of a race.                                        *)
RacingRequests == {1, 2}

NextBinding ==
  \/ \E r \in RacingRequests, in \in RoleInputs : Receive(r, in)
  \/ \E r \in RacingRequests : Lookup(r)
  \/ \E r \in RacingRequests : GetUser(r)
  \/ \E r \in RacingRequests : CreateUser(r)
  \/ \E r \in RacingRequests : LinkProfile(r)
  \/ \E r \in RacingRequests : RoleLookup(r)
  \/ \E r \in RacingRequests : RoleInsert(r)
  \/ \E r \in RacingRequests : GenLink(r)
  \/ \E r \in RacingRequests : SignIn(r)
  \/ \E form \in {"student", "verifier"}, connected \in {EmptyStr, ChecksumAddr(2)} :
       Submit(1, form, connected)
  \/ OnboardCheck(1)
  \/ OnboardInsert(1)
  \/ OnboardRole(1)
  \/ InitialSession
  \/ OnboardingCompleteStart
  \/ OnboardingCompleteDone

SpecBinding == InitBinding /\ [][NextBinding]_vars

(* Logins of wallet 1 with its address in lower case and in mixed case,    *)
(* and a form submission with the mixed-case address of wallet 2           *)
(* connected.                                                              *)
CaseInputs ==
  {[method |-> "POST", action |-> "verify", wallet_address |-> a,
    signature |-> Sig(1, SIGN_MESSAGE), message |-> SIGN_MESSAGE] :
     a \in {LowerAddr(1), ChecksumAddr(1)}}

NextCase ==
  \/ \E r \in RacingRequests, in \in CaseInputs : Receive(r, in)
  \/ \E r \in RacingRequests : Lookup(r)
  \/ \E r \in RacingRequests : GetUser(r)
  \/ \E r \in RacingRequests : CreateUser(r)
  \/ \E r \in RacingRequests : LinkProfile(r)
  \/ \E r \in RacingRequests : RoleLookup(r)
  \/ \E r \in RacingRequests : RoleInsert(r)
  \/ \E r \in RacingRequests : GenLink(r)
  \/ \E r \in RacingRequests : SignIn(r)
  \/ \E form \in {"student", "verifier"}, connected \in {EmptyStr, ChecksumAddr(2)} :
       Submit(1, form, connected)
  \/ OnboardCheck(1)
  \/ OnboardInsert(1)
  \/ OnboardRole(1)

SpecCase == Init /\ [][NextCase]_vars


(* ------------------------------ properties ----------------------------- *)
IsVerifyPost(q) == q.pc # "idle" /\ q.method = "POST" /\ q.action = "verify"

(* A verify request whose signature recovers to an address.                *)
RecoversTo(q) == verifyMessage(q.message, q.signature)

SignedByAnother(q) ==
  /\ IsVerifyPost(q)
  /\ isValidAddress(q.wallet_address)
  /\ q.message = SIGN_MESSAGE
  /\ RecoversTo(q).ok
  /\ toLowerCase(RecoversTo(q).address) # toLowerCase(q.wallet_address)

(* C1: a verify request with a well-formed address and the fixed message   *)
(* whose signature recovers to another address (both lower-cased) is       *)
(* answered 401 with the friendly error at once, and has created no        *)
(* identity, written no profile or role row and issued no credential.      *)
C1_MismatchRejected ==
  \A r \in Requests :
    SignedByAnother(reqs[r]) =>
      /\ reqs[r].pc = "done"
      /\ reqs[r].status = 401
      /\ reqs[r].error = FRIENDLY_VERIFY_ERROR
      /\ reqs[r].effects = {}
      /\ reqs[r].calls = {"verifyMessage"}
      /\ reqs[r].token_hash = 0

C1_Witness ==
  \E r \in Requests :
    /\ SignedByAnother(reqs[r])
    /\ reqs[r].signature.signer \in Wallets
    /\ reqs[r].status = 401

(* C2 as stated: every verify submission whose message differs from the    *)
(* fixed constant is answered 401, before signature recovery or storage.   *)
C2_AnyWrongMessageIs401 ==
  \A r \in Requests :
    (IsVerifyPost(reqs[r]) /\ reqs[r].message # SIGN_MESSAGE) =>
      /\ reqs[r].status = 401
      /\ reqs[r].calls = {}

AllFieldsPresent(q) ==
  /\ q.wallet_address # EmptyStr
  /\ isValidAddress(q.wallet_address)
  /\ q.signature # EmptySig
  /\ q.message # ""

(* C2 amended: a verify submission whose message differs from the fixed    *)
(* constant is rejected before signature recovery or storage access: with  *)
(* 401 and the friendly error when the address is well-formed and the      *)
(* signature and the message are non-empty, with 400 otherwise.            *)
C2_WrongMessageRejected ==
  \A r \in Requests :
    (IsVerifyPost(reqs[r]) /\ reqs[r].message # SIGN_MESSAGE) =>
      /\ reqs[r].pc = "done"
      /\ reqs[r].status = IF AllFieldsPresent(reqs[r]) THEN 401 ELSE 400
      /\ reqs[r].error = FRIENDLY_VERIFY_ERROR
      /\ reqs[r].calls = {}
      /\ reqs[r].effects = {}

(* A signature genuinely made by the submitted address over a message one  *)
(* trailing blank away from the constant, rejected with 401.               *)
C2_Witness ==
  \E r \in Requests :
    /\ IsVerifyPost(reqs[r])
    /\ reqs[r].message = SIGN_MESSAGE \o " "
    /\ reqs[r].signature = Sig(1, SIGN_MESSAGE \o " ")
    /\ reqs[r].wallet_address = ChecksumAddr(1)
    /\ reqs[r].status = 401


(* A verify request that passes every check of the handler.                *)
GenuinelySigned(q) ==
  /\ IsVerifyPost(q)
  /\ isValidAddress(q.wallet_address)
  /\ q.message = SIGN_MESSAGE
  /\ RecoversTo(q).ok
  /\ toLowerCase(RecoversTo(q).address) = toLowerCase(q.wallet_address)

UsersOf(a) == {u \in users : u.email = Email(a)}
ProfilesOf(a) == {p \in profiles : p.wallet_address = a}
NormalizedAddresses == {LowerAddr(w) : w \in Wallets}

(* C3 as stated, and only for runs in which no storage or provider call    *)
(* has failed: a finished verify request with a well-formed address, the   *)
(* fixed message and a signature of that address has status 200, returns   *)
(* the lower-cased address, and the profile of that address is linked to   *)
(* the returned user id.                                                   *)
C3_GenuineRequestSucceeds ==
  \A r \in Requests :
    (reqs[r].pc = "done" /\ GenuinelySigned(reqs[r]) /\ failures = 0) =>
      /\ reqs[r].status = 200
      /\ reqs[r].user.id # 0
      /\ reqs[r].user.wallet_address = toLowerCase(reqs[r].wallet_address)
      /\ \E p \in profiles :
           /\ p.wallet_address = reqs[r].user.wallet_address
           /\ p.user_id = reqs[r].user.id

(* Every request for address a that got past the checks has finished, and  *)
(* there is one.                                                           *)
AllFinishedFor(a) ==
  /\ \E r \in Requests : reqs[r].normalizedAddress = a /\ reqs[r].pc = "done"
  /\ \A r \in Requests : reqs[r].normalizedAddress = a => reqs[r].pc = "done"

RacedFor(r1, r2) ==
  /\ r1 # r2
  /\ reqs[r1].pc = "done" /\ reqs[r2].pc = "done"
  /\ reqs[r1].normalizedAddress = reqs[r2].normalizedAddress
  /\ reqs[r1].existingProfile.id = 0 /\ reqs[r2].existingProfile.id = 0
  /\ "createUser" \in reqs[r1].calls /\ "createUser" \in reqs[r2].calls

C5_LoserReResolves ==
  \A r1, r2 \in Requests :
    (RacedFor(r1, r2) /\ failures = 0) =>
      /\ reqs[r1].status = 200
      /\ reqs[r2].status = 200
      /\ reqs[r1].user.id = reqs[r2].user.id


(* Request r2 arrived after r1 had been answered 200, for the same         *)
(* address, and no storage or provider call of either request failed.      *)
InSequence(r1, r2) ==
  /\ r1 \in reqs[r2].after
  /\ reqs[r1].status = 200
  /\ reqs[r1].failed = {}
  /\ reqs[r2].pc = "done"
  /\ reqs[r2].failed = {}
  /\ GenuinelySigned(reqs[r2])
  /\ reqs[r2].normalizedAddress = reqs[r1].normalizedAddress

ProvisioningCalls == {"profiles.update", "profiles.insert", "user_roles.select", "user_roles.insert"}

(* C7 as stated: a request that created the identity for an address        *)
(* without linked profile and was answered 200 left exactly one profile of *)
(* that address, linked to the returned id (role student and not onboarded *)
(* when it inserted the row), and the role row (id, student); and it was   *)
(* not answered 200 when linking, inserting or ensuring the role failed.   *)
C7_ProvisionedOrFailed ==
  \A r \in Requests :
    (reqs[r].pc = "done" /\ "createUser" \in reqs[r].effects) =>
      /\ reqs[r].status = 200 =>
           /\ Cardinality(ProfilesOf(reqs[r].normalizedAddress)) = 1
           /\ \A p \in ProfilesOf(reqs[r].normalizedAddress) :
                /\ p.user_id = reqs[r].user.id
                /\ reqs[r].existingProfile.id = 0 => (p.role = "student" /\ ~p.onboarded)
           /\ \E x \in user_roles : x.user_id = reqs[r].user.id /\ x.role = "student"
      /\ reqs[r].failed \cap ProvisioningCalls # {} => reqs[r].status = 500

(* C8: Case A is read-only.  A request whose lookup found a profile with a *)
(* linked identity calls nothing but the lookup, getUserById and           *)
(* generateLink, creates no identity and writes no profile or role row;    *)
(* answered 200, it returns the identity that profile references.          *)
C8_CaseAReadOnly ==
  \A r \in Requests :
    reqs[r].existingProfile.user_id # 0 =>
      /\ reqs[r].calls \subseteq {"verifyMessage", "profiles.select", "getUserById", "generateLink"}
      /\ reqs[r].effects \subseteq {"generateLink"}
      /\ reqs[r].status = 200 =>
           /\ reqs[r].user.id = reqs[r].existingProfile.user_id
           /\ \E p \in profiles :
                /\ p.id = reqs[r].existingProfile.id
                /\ p.user_id = reqs[r].user.id
                /\ p.wallet_address = reqs[r].normalizedAddress

(* Case A answered 200 while the identity had no role row (its insert had  *)
(* failed in the first login): nothing was written even then.              *)
C8_Witness ==
  \E r \in Requests :
    /\ reqs[r].existingProfile.user_id # 0
    /\ reqs[r].status = 200
    /\ Cardinality(user_roles) = 0

(* The step of request r that links the unlinked profile it found, its     *)
(* update call succeeding.                                                 *)
LinksUnlinked(r) ==
  /\ reqs[r].pc = "linkProfile"
  /\ reqs'[r].pc # "linkProfile"
  /\ reqs[r].existingProfile.id # 0
  /\ reqs'[r].failed = reqs[r].failed

C10_OneProfilePerWalletAndIdentity ==
  \A p, q \in profiles :
    p # q =>
      /\ p.wallet_address # q.wallet_address
      /\ p.user_id # 0 => p.user_id # q.user_id

(* A finished form submission whose role upsert returned no error.         *)
RoleEnsured(s) == subs[s].pc = "done" /\ subs[s].result = "ok"

RolesOf(user_id, role) == {x \in user_roles : x.user_id = user_id /\ x.role = role}

(* C11: no (identity id, role) pair occurs twice in user_roles, whatever    *)
(* verify requests and onboarding submissions have run; and an upsert of a *)
(* role the identity already has returns no error and adds no row: the     *)
(* pair is there exactly once afterwards.                                  *)
C11_RoleInsertIdempotent ==
  /\ \A x, y \in user_roles : (x.user_id = y.user_id /\ x.role = y.role) => x = y
  /\ \A s \in Submits :
       RoleEnsured(s) => Cardinality(RolesOf(subs[s].user, subs[s].form)) = 1

(* The student form upserted the role the first login had inserted: the    *)
(* duplicate was ignored.                                                  *)
C11_Witness ==
  \E s \in Submits, r \in Requests :
    /\ RoleEnsured(s)
    /\ "user_roles.insert" \notin subs[s].effects
    /\ "user_roles.insert" \in reqs[r].effects
    /\ reqs[r].userId = subs[s].user
    /\ subs[s].form = "student"

(* Why the checks of verify reject a request whose fields are all there.   *)
RejectionCause(q) ==
  IF q.message # SIGN_MESSAGE THEN "message"
  ELSE IF ~RecoversTo(q).ok THEN "recovery"
  ELSE IF toLowerCase(RecoversTo(q).address) # toLowerCase(q.wallet_address) THEN "mismatch"
  ELSE "none"

RejectedByChecks(q) == IsVerifyPost(q) /\ AllFieldsPresent(q) /\ RejectionCause(q) # "none"

(* What the client receives: the status and the JSON body.                 *)
Response(q) == [status |-> q.status, error |-> q.error, user |-> q.user, token_hash |-> q.token_hash]

(* C12: a wrong message, an unrecoverable signature and a signature of     *)
(* another address are answered alike: any two such requests have the same *)
(* response, status 401 with the friendly error and nothing else.          *)
C12_RejectionsIndistinguishable ==
  \A r1, r2 \in Requests :
    (RejectedByChecks(reqs[r1]) /\ RejectedByChecks(reqs[r2])) =>
      /\ reqs[r1].pc = "done"
      /\ Response(reqs[r1]) = Response(reqs[r2])
      /\ reqs[r1].status = 401
      /\ reqs[r1].error = FRIENDLY_VERIFY_ERROR

(* A request with an unrecoverable signature and one rejected for another  *)
(* cause, both answered.                                                   *)
C12_Witness ==
  \E r1, r2 \in Requests :
    /\ RejectedByChecks(reqs[r1]) /\ RejectedByChecks(reqs[r2])
    /\ RejectionCause(reqs[r1]) = "recovery"
    /\ RejectionCause(reqs[r2]) \in {"message", "mismatch"}
    /\ Response(reqs[r1]) = Response(reqs[r2])

(* Request r2 repeats, after r1 was answered 200, the very triple of r1,   *)
(* and no storage or provider call of either request failed.               *)
Replays(r1, r2) ==
  /\ r1 \in reqs[r2].after
  /\ reqs[r1].status = 200
  /\ reqs[r1].failed = {}
  /\ IsVerifyPost(reqs[r2])
  /\ reqs[r2].wallet_address = reqs[r1].wallet_address
  /\ reqs[r2].signature = reqs[r1].signature
  /\ reqs[r2].message = reqs[r1].message
  /\ reqs[r2].pc = "done"
  /\ reqs[r2].failed = {}

SignatureRequested == \E i \in 1..Len(login.steps) : login.steps[i] = "personal_sign"

(* signLoginMessage has returned or thrown.                                *)
SignSettled == login.pc \in {"fetch", "awaitVerify", "redeem", "done"}

(* An extension is there, it returned a non-empty active address, and that *)
(* address is the connected one up to the case of its letters.             *)
SignConditions ==
  /\ login.ethereum
  /\ ~login.rejected
  /\ login.accounts # <<>>
  /\ login.accounts[1] # EmptyStr
  /\ toLowerCase(login.accounts[1]) = toLowerCase(login.connectedWalletAddress)

SignedAsClaimed ==
  login.signed # NoSigned =>
    /\ SignConditions
    /\ login.signed.wallet_address = login.accounts[1]
    /\ login.signed.message = WALLET_SIGN_MESSAGE
    /\ login.signed.signature = Sig(WalletOf(login.accounts[1]), WALLET_SIGN_MESSAGE)

FlowSteps == <<"eth_requestAccounts", "personal_sign", "verify", "verifyOtp">>

IsPrefix(s, t) == Len(s) <= Len(t) /\ \A i \in 1..Len(s) : s[i] = t[i]

Called(step) == \E i \in 1..Len(login.steps) : login.steps[i] = step

(* C15: one authenticateWithWallet call asks for the signature, posts to   *)
(* verify and redeems the token at most once each and in that order; it    *)
(* posts only what a successful sign returned, redeems only after a 2xx    *)
(* answer of verify, stops at the first failure, and a failed redemption   *)
(* ends the call with the friendly authentication error.                   *)
C15_OneAttemptInOrder ==
  /\ IsPrefix(login.steps, FlowSteps)
  /\ Called("verify") => login.signed # NoSigned
  /\ Called("verifyOtp") =>
       /\ login.req # 0
       /\ reqs[login.req].status = 200
       /\ login.token_hash = reqs[login.req].token_hash
  /\ (login.pc = "done" /\ login.error # "") =>
       /\ ~auth.isAuthenticating
       /\ auth.error = login.error
       /\ Called("verifyOtp") => login.error = FRIENDLY_VERIFY_ERROR
  /\ (login.pc = "done" /\ login.req # 0 /\ reqs[login.req].status # 200) => ~Called("verifyOtp")

(* The flow went through all three steps and the redemption failed.        *)
C15_Witness ==
  /\ login.pc = "done"
  /\ login.steps = FlowSteps
  /\ login.error = FRIENDLY_VERIFY_ERROR
  /\ session = 0

(* C16 as stated: whenever the provider has a session and is not loading,  *)
(* profile and roles are what a completed fetch for that session's user    *)
(* returned.                                                               *)
C16_ReadyMeansLoaded ==
  (auth.session # 0 /\ ~auth.isLoading) => auth.loadedFor = auth.session

(* C17 as stated: with no user and no session in the provider, profile is  *)
(* null and roles is empty, whatever fetch completes afterwards.           *)
C17_SignedOutStaysEmpty ==
  (auth.user = 0 /\ auth.session = 0) => (auth.profile = NullProfile /\ auth.roles = {})

(* C18 as stated: when signOut returns, user, session, profile and roles   *)
(* are cleared, whatever the provider's call did.                          *)
C18_SignOutAlwaysClears ==
  auth.lastOp = "signOut" =>
    /\ auth.user = 0
    /\ auth.session = 0
    /\ auth.profile = NullProfile
    /\ auth.roles = {}

(* C19: needsOnboarding() is true exactly when there is a user and the     *)
(* cached profile is null or not onboarded; false without a user.          *)
C19_NeedsOnboardingIff ==
  /\ needsOnboarding <=> (auth.user # 0 /\ (auth.profile.id = 0 \/ auth.profile.onboarded = FALSE))
  /\ auth.user = 0 => ~needsOnboarding

(* A user whose cached profile is onboarded.                               *)
C19_Witness ==
  /\ auth.user # 0
  /\ auth.profile.id # 0
  /\ auth.profile.onboarded
  /\ ~needsOnboarding

(* C20 as stated: with a user, needsOnboarding() is true for a cached      *)
(* profile that is not onboarded, and false when onboardingComplete() has  *)
(* just returned successfully, the cached profile having been null or not. *)
C20_CompleteEndsOnboarding ==
  /\ (auth.user # 0 /\ auth.profile.id # 0 /\ ~auth.profile.onboarded) => needsOnboarding
  /\ (auth.user # 0 /\ auth.lastOp = "onboardingComplete") => ~needsOnboarding

(* The stored profile rows of the provider's user.                         *)
StoredProfiles == {p \in profiles : p.user_id = auth.user}

(* C21 as stated: after each of two onboardingComplete() calls in a row by *)
(* a signed-in user the stored and the cached onboarded flag are true; the *)
(* second call throws only if its update failed and leaves every other     *)
(* field of the stored and of the cached profile as it was.                *)
C21_CompleteTwiceKeepsFlag ==
  /\ (auth.user # 0 /\ auth.lastOp = "onboardingComplete") =>
       /\ \A p \in StoredProfiles : p.onboarded
       /\ auth.profile.onboarded
  /\ (auth.user # 0 /\ auth.lastOp = "onboardingComplete" /\ auth.completing.repeat) =>
       /\ StoredProfiles = {[LinkedProfile(1) EXCEPT !.onboarded = TRUE]}
       /\ auth.profile = [LinkedProfile(1) EXCEPT !.onboarded = TRUE]
  /\ (auth.lastOp = "onboardingComplete threw" /\ auth.completing.repeat) => failures > 0

(* C22: in every step a stored profile row that is onboarded stays         *)
(* onboarded, and a row becomes onboarded only in the step in which an     *)
(* onboardingComplete() called by the row's own identity settles.          *)
C22_OnboardedMonotone ==
  [][\A p \in profiles : \A q \in profiles' :
       q.id = p.id =>
         /\ p.onboarded => q.onboarded
         /\ (~p.onboarded /\ q.onboarded) =>
              /\ auth.completing.active
              /\ ~auth'.completing.active
              /\ auth.completing.user = p.user_id]_vars

(* A login of wallet 2 has been served and its profile written while the   *)
(* profile of wallet 1 is onboarded.                                       *)
C22_Witness ==
  /\ reqs[1].status = 200
  /\ reqs[1].normalizedAddress = LowerAddr(2)
  /\ \E p \in profiles : p.wallet_address = LowerAddr(1) /\ p.user_id = 1 /\ p.onboarded
  /\ \E p \in profiles : p.wallet_address = LowerAddr(2) /\ p.user_id = 2 /\ ~p.onboarded

Props == [requiredRole : UserRoles \cup {""}, requireAuth : BOOLEAN]

(* C23 as stated: for a signed-in user, once the provider is not loading,  *)
(* every guard on a path outside /onboarding navigates to the onboarding   *)
(* route exactly when needsOnboarding() is true of the provider's state.   *)
C23_GuardFollowsNeedsOnboarding ==
  \A g \in Guards, props \in Props, path \in Paths :
    (auth.user # 0 /\ ~auth.isLoading /\ ~startsWith(path, OnboardingPrefix)) =>
      ((ProtectedRoute(g, useAuth, props.requiredRole, props.requireAuth, path)
          = Navigate(SelectRolePath))
        <=> needsOnboarding)

OutsideOnboarding == {path \in Paths : ~startsWith(path, OnboardingPrefix)}

Rendered(g, props, path) ==
  ProtectedRoute(g, useAuthWithFlags, props.requiredRole, props.requireAuth, path)

C26_ExistingProfileBlocksSubmit ==
  \A s \in Submits :
    subs[s].existed =>
      /\ subs[s].pc = "done"
      /\ subs[s].result = "exists"
      /\ subs[s].effects = {}

(* C27: in every step a profile row that has an identity id keeps that     *)
(* identity id and its wallet_address, and every identity stays.           *)
C27_BindingImmutable ==
  [][/\ \A p \in profiles :
          p.user_id # 0 =>
            \E q \in profiles' :
              q.id = p.id /\ q.user_id = p.user_id /\ q.wallet_address = p.wallet_address
     /\ users \subseteq users']_vars

(* Two logins that both found the profile unlinked have finished, the      *)
(* profile is bound to the one identity and onboardingComplete() has       *)
(* marked it.                                                              *)
C27_Witness ==
  /\ \A r \in {1, 2} : /\ reqs[r].pc = "done"
                        /\ reqs[r].existingProfile.id = 1
                        /\ reqs[r].existingProfile.user_id = 0
  /\ Cardinality(users) = 1
  /\ \E p \in profiles : p.id = 1 /\ p.user_id = 1 /\ p.wallet_address = LowerAddr(1) /\ p.onboarded

(* No upper-case letter occurs in s.                                       *)
IsLowerCase(s) == \A i \in 1..Len(s) : s[i] \notin UpperHexChars \cup {"X"}

(* Two different strings that are equal up to letter case.                 *)
DifferInCaseOnly(a, b) ==
  /\ a # b
  /\ Len(a) = Len(b)
  /\ \A i \in 1..Len(a) : toLowerChar(a[i]) = toLowerChar(b[i])

(* C28: two accepted verify requests whose addresses differ only in letter *)
(* case are answered with the same identity and resolve to the one profile *)
(* row of the lower-cased address, bound to that identity; and every       *)
(* wallet_address in profiles, in an identity's metadata and in a verify   *)
(* response is lower-case.                                                 *)
C28_CaseInsensitiveLowerCaseStored ==
  /\ \A r1, r2 \in Requests :
       (/\ reqs[r1].pc = "done" /\ reqs[r1].status = 200
        /\ reqs[r2].pc = "done" /\ reqs[r2].status = 200
        /\ DifferInCaseOnly(reqs[r1].wallet_address, reqs[r2].wallet_address)) =>
         /\ reqs[r1].user.id = reqs[r2].user.id
         /\ reqs[r1].user.wallet_address = reqs[r2].user.wallet_address
         /\ \E p \in profiles :
              /\ ProfilesOf(reqs[r1].user.wallet_address) = {p}
              /\ p.user_id = reqs[r1].user.id
  /\ \A p \in profiles : IsLowerCase(p.wallet_address)
  /\ \A u \in users : IsLowerCase(u.wallet_address)
  /\ \A r \in Requests : reqs[r].status = 200 => IsLowerCase(reqs[r].user.wallet_address)

(* Wallet 1 has logged in with its lower-case and with its mixed-case      *)
(* address, and a form submitted with the mixed-case address of wallet 2   *)
(* connected has written its profile row.                                  *)
C28_Witness ==
  /\ \E r1, r2 \in Requests :
       /\ reqs[r1].status = 200 /\ reqs[r1].wallet_address = LowerAddr(1)
       /\ reqs[r2].status = 200 /\ reqs[r2].wallet_address = ChecksumAddr(1)
       /\ reqs[r1].user.id = reqs[r2].user.id
  /\ subs[1].walletAddress = ChecksumAddr(2)
  /\ "profiles.insert" \in subs[1].effects
  /\ \E p \in profiles : p.wallet_address = LowerAddr(2)

(* The step in which the two fetches of a refreshProfile() settle with an  *)
(* error.                                                                  *)
FetchFails == auth.refreshing # 0 /\ auth'.refreshing = 0 /\ failures' = failures + 1

(* C29: when the fetches of refreshProfile() fail, the call returns with   *)
(* profile null and roles empty, user and session are kept, isLoading is   *)
(* not touched and needsOnboarding() is true for the user; and in every    *)
(* state once initializeAuth has finished and no signOut is in flight      *)
(* isLoading is false.                                                     *)
C29_FailedFetchNonFatal ==
  [][/\ FetchFails =>
          /\ auth'.lastOp = "refreshProfile"
          /\ auth'.profile = NullProfile
          /\ auth'.roles = {}
          /\ auth'.user = auth.user
          /\ auth'.session = auth.session
          /\ session' = session
          /\ auth'.isLoading = auth.isLoading
          /\ auth'.user # 0 => needsOnboarding'
     /\ (auth'.init = "done" /\ ~auth'.signingOut) => ~auth'.isLoading]_vars

(* A signed-in user whose stored profile could not be fetched: the         *)
(* provider is ready, without a profile, and asks for onboarding.          *)
C29_Witness ==
  /\ auth.lastOp = "refreshProfile"
  /\ failures > 0
  /\ auth.user # 0
  /\ auth.session # 0
  /\ Cardinality(StoredProfiles) = 1
  /\ auth.profile = NullProfile
  /\ auth.roles = {}
  /\ ~auth.isLoading
  /\ needsOnboarding

(* C30: a sign-in attempt that found the extension and whose account       *)
(* request was answered ends, when it fails (no active address, another    *)
(* address, signature request rejected, verify request rejected or         *)
(* answered non-2xx, redemption failed), with the one friendly error, both *)
(* thrown to the caller and stored in the provider.                        *)
C30_FailuresFunnelToFriendlyError ==
  (login.pc = "done" /\ login.error # "" /\ login.ethereum /\ ~login.rejected) =>
    /\ login.error = FRIENDLY_VERIFY_ERROR
    /\ auth.error = FRIENDLY_VERIFY_ERROR

(* A step of an authenticateWallet call, one that ends the call with an    *)
(* error, and what the claim says the call leaves alone.                   *)
LoginStep == login' # login
LoginFailed == login'.pc = "done" /\ login'.error # ""
LoginSucceeded == login'.pc = "done" /\ login'.error = ""
IdentityKept ==
  /\ auth'.user = auth.user
  /\ auth'.session = auth.session
  /\ auth'.profile = auth.profile
  /\ auth'.roles = auth.roles
  /\ session' = session

(* C31 as stated: no step of a call that does not succeed changes user,    *)
(* session, profile or roles, and the step in which the call fails leaves  *)
(* isAuthenticating false and the failure message in error.                *)
C31_FailedLoginSetsError ==
  [][LoginStep =>
       /\ ~LoginSucceeded => IdentityKept
       /\ LoginFailed => (~auth'.isAuthenticating /\ auth'.error = login'.error)]_vars

(* C31 amended: no step of a call that does not succeed changes user,      *)
(* session, profile or roles; a call that fails past the check of          *)
(* wallet.address leaves isAuthenticating false and the failure message in *)
(* error; a call without a connected wallet throws 'Wallet not connected'  *)
(* and changes nothing, error included.                                    *)
C31_FailedLoginKeepsIdentity ==
  [][LoginStep =>
       /\ ~LoginSucceeded => IdentityKept
       /\ LoginFailed =>
            IF login'.error = WalletNotConnected
            THEN auth' = auth
            ELSE ~auth'.isAuthenticating /\ auth'.error = login'.error]_vars

(* A signed-in user's further sign-in attempt failed: the user is kept and *)
(* the message is in error.                                                *)
C31_Witness ==
  /\ login.pc = "done"
  /\ login.error \notin {"", WalletNotConnected}
  /\ auth.error = login.error
  /\ ~auth.isAuthenticating
  /\ auth.user # 0
  /\ auth.session = auth.user
  /\ session = auth.user

(* What a request has caused: no library, storage or provider call, and no *)
(* write.                                                                  *)
NothingTriggered(q) == q.calls = {} /\ q.effects = {} /\ q.failed = {}

(* C32 as stated: every request whose method is not POST is answered 405   *)
(* and has made no verification, storage or provider call.                 *)
C32_NonPostIs405 ==
  \A r \in Requests :
    (reqs[r].pc # "idle" /\ reqs[r].method # "POST") =>
      /\ reqs[r].pc = "done"
      /\ reqs[r].status = 405
      /\ NothingTriggered(reqs[r])

(* C32 amended: a request whose method is neither POST nor OPTIONS is      *)
(* answered 405 'Method not allowed', an OPTIONS request (the CORS         *)
(* preflight) is answered 200 without a body; neither has made a           *)
(* verification, storage or provider call.                                 *)
C32_NonPostTriggersNothing ==
  \A r \in Requests :
    (reqs[r].pc # "idle" /\ reqs[r].method # "POST") =>
      /\ reqs[r].pc = "done"
      /\ NothingTriggered(reqs[r])
      /\ reqs[r].token_hash = 0
      /\ IF reqs[r].method = "OPTIONS"
         THEN reqs[r].status = 200 /\ reqs[r].error = ""
         ELSE reqs[r].status = 405 /\ reqs[r].error = "Method not allowed"

(* A GET to verify with a body a POST would have been answered 200 for.    *)
C32_Witness ==
  \E r \in Requests :
    /\ reqs[r].pc = "done"
    /\ reqs[r].method = "GET"
    /\ reqs[r].action = "verify"
    /\ reqs[r].wallet_address = ChecksumAddr(1)
    /\ reqs[r].signature = Sig(1, SIGN_MESSAGE)
    /\ reqs[r].message = SIGN_MESSAGE
    /\ reqs[r].status = 405

(* The submitted addresses that are not 0x + 40 hex characters, and a      *)
(* verify request that lacks a field or carries such an address.           *)
MalformedAddrs == {ShortAddr, NonHexAddr, UpperPrefixAddr}
Incomplete(q) ==
  \/ q.wallet_address = EmptyStr
  \/ q.wallet_address \in MalformedAddrs
  \/ q.signature = EmptySig
  \/ q.message = ""
StorageOrProviderCalls(q) == q.calls \ {"verifyMessage"}

(* C33: a verify request lacking a field or carrying a malformed address   *)
(* is answered 400 whatever its message, without signature recovery; a     *)
(* complete request with another message is answered 401 without signature *)
(* recovery; and a request that reached a storage or provider call, or     *)
(* goes on to one, is complete, carries the fixed message and its          *)
(* signature recovers to the submitted address.                            *)
C33_ValidationOrder ==
  \A r \in Requests :
    IsVerifyPost(reqs[r]) =>
      /\ Incomplete(reqs[r]) =>
           /\ reqs[r].pc = "done"
           /\ reqs[r].status = 400
           /\ reqs[r].calls = {}
      /\ (~Incomplete(reqs[r]) /\ reqs[r].message # SIGN_MESSAGE) =>
           /\ reqs[r].pc = "done"
           /\ reqs[r].status = 401
           /\ reqs[r].calls = {}
      /\ (StorageOrProviderCalls(reqs[r]) # {} \/ reqs[r].pc # "done" \/ reqs[r].effects # {}) =>
           /\ ~Incomplete(reqs[r])
           /\ reqs[r].message = SIGN_MESSAGE
           /\ "verifyMessage" \in reqs[r].calls
           /\ RecoversTo(reqs[r]).ok
           /\ toLowerCase(RecoversTo(reqs[r]).address) = toLowerCase(reqs[r].wallet_address)

(* A malformed address together with another message and a signature by    *)
(* another wallet: answered 400.                                           *)
C33_Witness ==
  \E r \in Requests :
    /\ IsVerifyPost(reqs[r])
    /\ reqs[r].wallet_address = ShortAddr
    /\ reqs[r].message = OneCharOff
    /\ reqs[r].signature = Sig(2, SIGN_MESSAGE)
    /\ reqs[r].pc = "done"
    /\ reqs[r].status = 400

(* C34: while a refreshProfile is in flight, profile and roles change only *)
(* in the one step taken after both fetches have settled, and that step    *)
(* writes the result of the profile fetch and the result of the role fetch *)
(* together; a fetch settling first changes neither.                       *)
C34_RefreshIsJoin ==
  [][auth.refreshing # 0 =>
       \/ /\ auth'.profile = auth.profile
          /\ auth'.roles = auth.roles
          /\ auth'.loadedFor = auth.loadedFor
          /\ auth'.refreshing = auth.refreshing
       \/ /\ auth.profileData.settled
          /\ auth.rolesData.settled
          /\ auth'.profile = auth.profileData.value
          /\ auth'.roles = auth.rolesData.value
          /\ auth'.loadedFor = auth.refreshing
          /\ auth'.refreshing = 0]_vars

(* The profile fetch has settled with the row the form inserted, the role  *)
(* fetch has not, and the provider still holds what it held before.        *)
C34_Witness ==
  /\ auth.refreshing # 0
  /\ auth.profileData.settled
  /\ auth.profileData.value # NullProfile
  /\ ~auth.rolesData.settled
  /\ auth.profile = NullProfile
  /\ auth.roles = {}
  /\ auth.loadedFor = 0

(* C35: once loading has finished (isLoading false, the profile and roles  *)
(* of the present identity fetched), the four guards render the same for   *)
(* every user, onboarded flag, role set, requiredRole, requireAuth and     *)
(* path: children, or a redirect to the same target.                       *)
C35_GuardsDecisionEquivalent ==
  (~auth.isLoading /\ ProfileLoaded) =>
    \A g \in Guards, h \in Guards, props \in Props, path \in Paths :
      ProtectedRoute(g, useAuthWithFlags, props.requiredRole, props.requireAuth, path)
        = ProtectedRoute(h, useAuthWithFlags, props.requiredRole, props.requireAuth, path)

(* C36: the credential of every request answered 200 is for an identity    *)
(* whose creation-time wallet address (user_metadata.wallet_address) is    *)
(* the lower-cased address recovered from the request's signature.         *)
C36_CredentialForSignersIdentity ==
  \A r \in Requests :
    (reqs[r].pc = "done" /\ reqs[r].status = 200) =>
      \A u \in users :
        (u.id = reqs[r].userId \/ u.email = reqs[r].userEmail) =>
          u.wallet_address = toLowerCase(RecoversTo(reqs[r]).address)

(* Request q created the identity of its address and then lost a later     *)
(* step (the profile link or insert, the role lookup or insert, the        *)
(* credential), and request r for the same address arrived after q had     *)
(* been answered and ran with every storage and provider call healthy.     *)
RetriesPartialLogin(q, r) ==
  /\ q \in reqs[r].after
  /\ "createUser" \in reqs[q].effects
  /\ reqs[q].failed # {}
  /\ GenuinelySigned(reqs[r])
  /\ reqs[r].normalizedAddress = reqs[q].normalizedAddress
  /\ reqs[r].pc = "done"
  /\ reqs[r].failed = {}

(* C37: a verify request with a valid signature that runs healthy after a  *)
(* partial first login of the same address is answered 200.                *)
C37_NoLockoutAfterPartialLogin ==
  \A q, r \in Requests : RetriesPartialLogin(q, r) => reqs[r].status = 200

(* The authenticateWallet calls in flight.                                 *)
CallsInFlight ==
  (IF login.pc \in {"idle", "done"} THEN 0 ELSE 1)
    + (IF login.other = "eth_requestAccounts" THEN 1 ELSE 0)

(* C38: isAuthenticating is true exactly in the states in which an         *)
(* authenticateWallet call is in flight, two overlapping calls included.   *)
C38_AuthenticatingIffInFlight ==
  auth.isAuthenticating <=> CallsInFlight > 0

====
